---- MODULE Spec2Model ----
(***************************************************************************)
(* Event-driven pool accounting of the Balancer v2 subgraph: the Vault    *)
(* handlers (handleBalanceChange, handleBalanceManage, handleSwapEvent),  *)
(* the daily pool snapshot and the decimal helpers they use.              *)
(*                                                                         *)
(* The entity store is one record, `store`; every handler is an operator  *)
(* from (store, event) to the store it leaves and the way it ended.       *)
(***************************************************************************)
EXTENDS Integers, Sequences, FiniteSets, TLC

(***************************************************************************)
(* Arbitrary-precision numbers.  graph-ts BigInt and BigDecimal have no   *)
(* width, and raw token amounts (10^18 and more) exceed the integers of   *)
(* the model checker, so both are kept as digit strings.                  *)
(*   magnitude : sequence of decimal digits, least significant first,     *)
(*               no most-significant zero; <<>> is zero                   *)
(*   BigInt    : [neg, mag]                                                *)
(*   BigDecimal: [neg, mag, scale], worth (+/-)mag / 10^scale, kept with  *)
(*               the least scale (no low-order zero while scale > 0)      *)
(***************************************************************************)
Dig(m, i) == IF i <= Len(m) THEN m[i] ELSE 0

RECURSIVE StripHi(_)
StripHi(m) ==
  IF m = <<>> THEN <<>>
  ELSE IF m[Len(m)] = 0 THEN StripHi(SubSeq(m, 1, Len(m) - 1))
  ELSE m

RECURSIVE MagCmpAt(_, _, _)
MagCmpAt(a, b, i) ==
  IF i = 0 THEN 0
  ELSE IF a[i] < b[i] THEN -1
  ELSE IF a[i] > b[i] THEN 1
  ELSE MagCmpAt(a, b, i - 1)

\* -1, 0, 1 as a < b, a = b, a > b
MagCmp(a, b) ==
  IF Len(a) < Len(b) THEN -1
  ELSE IF Len(a) > Len(b) THEN 1
  ELSE MagCmpAt(a, b, Len(a))

RECURSIVE MagAddFrom(_, _, _, _)
MagAddFrom(a, b, i, c) ==
  IF i > Len(a) /\ i > Len(b)
  THEN (IF c = 0 THEN <<>> ELSE <<c>>)
  ELSE LET x == Dig(a, i) + Dig(b, i) + c
       IN  <<x % 10>> \o MagAddFrom(a, b, i + 1, x \div 10)

MagAdd(a, b) == MagAddFrom(a, b, 1, 0)

RECURSIVE MagSubFrom(_, _, _, _)
MagSubFrom(a, b, i, c) ==
  IF i > Len(a) THEN <<>>
  ELSE LET x == Dig(a, i) - Dig(b, i) - c
       IN  IF x < 0
           THEN <<x + 10>> \o MagSubFrom(a, b, i + 1, 1)
           ELSE <<x>> \o MagSubFrom(a, b, i + 1, 0)

\* a - b for a >= b
MagSub(a, b) == StripHi(MagSubFrom(a, b, 1, 0))

Zeros(n) == [i \in 1..n |-> 0]

\* m * 10^n
MagShift(m, n) == IF m = <<>> THEN <<>> ELSE Zeros(n) \o m

RECURSIVE MagOfNat(_)
MagOfNat(n) == IF n = 0 THEN <<>> ELSE <<n % 10>> \o MagOfNat(n \div 10)

RECURSIVE MagMulDigit(_, _, _, _)
\* a * d for one digit d, from position i on with carry c
MagMulDigit(a, d, i, c) ==
  IF i > Len(a) THEN (IF c = 0 THEN <<>> ELSE <<c>>)
  ELSE LET x == a[i] * d + c
       IN  <<x % 10>> \o MagMulDigit(a, d, i + 1, x \div 10)

RECURSIVE MagMul(_, _)
MagMul(a, b) ==
  IF a = <<>> \/ b = <<>> THEN <<>>
  ELSE MagAdd(StripHi(MagMulDigit(a, b[1], 1, 0)), MagShift(MagMul(a, Tail(b)), 1))

RECURSIVE MagTimesUpTo(_, _, _)
\* the greatest q <= 9, counted up from q, with b * q <= r
MagTimesUpTo(r, b, q) ==
  IF q < 9 /\ MagCmp(MagMul(b, <<q + 1>>), r) <= 0 THEN MagTimesUpTo(r, b, q + 1) ELSE q

RECURSIVE MagDivFrom(_, _, _, _)
\* long division of a by b # 0, the digits of a from position i down,
\* r the remainder so far: the digits of the quotient, least significant first
\* (the remainder r2 of every step is below b)
MagDivFrom(a, b, i, r) ==
  IF i = 0 THEN <<>>
  ELSE LET r1 == StripHi(<<a[i]>> \o r)
           q == MagTimesUpTo(r1, b, 0)
           r2 == MagSub(r1, MagMul(b, <<q>>))
       IN  IF MagCmp(r2, b) < 0 THEN MagDivFrom(a, b, i - 1, r2) \o <<q>> ELSE <<>>

\* the integer quotient of a by b # 0
MagDiv(a, b) == StripHi(MagDivFrom(a, b, Len(a), <<>>))

\* the sum of two signed magnitudes, as [neg, mag]
SignedAdd(xn, xm, yn, ym) ==
  IF xn = yn
  THEN [neg |-> xn /\ (xm # <<>> \/ ym # <<>>), mag |-> MagAdd(xm, ym)]
  ELSE LET c == MagCmp(xm, ym)
       IN  IF c = 0 THEN [neg |-> FALSE, mag |-> <<>>]
           ELSE IF c > 0 THEN [neg |-> xn, mag |-> MagSub(xm, ym)]
           ELSE [neg |-> yn, mag |-> MagSub(ym, xm)]

\* a nullable field that is not set
Null == [null |-> TRUE]

(* BigInt *)
BigIntOf(n) == [neg |-> n < 0, mag |-> MagOfNat(IF n < 0 THEN -n ELSE n)]
\* n * 10^k, for the raw amounts of tokens with k decimals
BigIntE(n, k) == [neg |-> n < 0, mag |-> MagShift(MagOfNat(IF n < 0 THEN -n ELSE n), k)]
ZERO == BigIntOf(0)
BI_plus(x, y) == SignedAdd(x.neg, x.mag, y.neg, y.mag)
BI_neg(x) == [neg |-> (~x.neg) /\ x.mag # <<>>, mag |-> x.mag]
BI_minus(x, y) == BI_plus(x, BI_neg(y))
BI_gt(x, y) == LET d == BI_minus(x, y) IN (~d.neg) /\ d.mag # <<>>
BI_lt(x, y) == BI_minus(x, y).neg
BI_times(x, y) ==
  LET m == MagMul(x.mag, y.mag) IN [neg |-> (x.neg # y.neg) /\ m # <<>>, mag |-> m]
\* the quotient truncated towards zero, y # 0
BI_div(x, y) ==
  LET m == MagDiv(x.mag, y.mag) IN [neg |-> (x.neg # y.neg) /\ m # <<>>, mag |-> m]
\* 10^k
BI_pow10(k) == [neg |-> FALSE, mag |-> MagShift(<<1>>, k)]

(* BigDecimal *)
RECURSIVE BD_norm(_)
BD_norm(x) ==
  IF x.mag = <<>> THEN [neg |-> FALSE, mag |-> <<>>, scale |-> 0]
  ELSE IF x.scale > 0 /\ x.mag[1] = 0
  THEN BD_norm([neg |-> x.neg, mag |-> Tail(x.mag), scale |-> x.scale - 1])
  ELSE x

ZERO_BD == [neg |-> FALSE, mag |-> <<>>, scale |-> 0]
ONE_BD == [neg |-> FALSE, mag |-> <<1>>, scale |-> 0]

BD_plus(x, y) ==
  LET s == IF x.scale > y.scale THEN x.scale ELSE y.scale
      r == SignedAdd(x.neg, MagShift(x.mag, s - x.scale),
                     y.neg, MagShift(y.mag, s - y.scale))
  IN  BD_norm([neg |-> r.neg, mag |-> r.mag, scale |-> s])
BD_neg(x) == [neg |-> (~x.neg) /\ x.mag # <<>>, mag |-> x.mag, scale |-> x.scale]
BD_minus(x, y) == BD_plus(x, BD_neg(y))
BD_times(x, y) ==
  BD_norm([neg |-> x.neg # y.neg, mag |-> MagMul(x.mag, y.mag), scale |-> x.scale + y.scale])
\* BigDecimal.truncate(decimals): the digits past the given decimal place are dropped
BD_truncate(x, decimals) ==
  IF x.scale <= decimals THEN x
  ELSE BD_norm([neg |-> x.neg,
                mag |-> SubSeq(x.mag, x.scale - decimals + 1, Len(x.mag)),
                scale |-> decimals])

\* BigInt.pow takes a u8 exponent: `decimals as u8`
AsU8(decimals) == decimals % 256

\* amount.toBigDecimal().div(10^decimals): the division by a power of ten is exact
tokenToDecimal(amount, decimals) ==
  BD_norm([neg |-> amount.neg, mag |-> amount.mag, scale |-> AsU8(decimals)])

\* num.divDecimal(10^decimals)
scaleDown(num, decimals) ==
  BD_norm([neg |-> num.neg, mag |-> num.mag, scale |-> AsU8(decimals)])

\* mutant of scaleUp: the decimal is rounded half up at `decimals` places
scaleUp_rounded(num, decimals) ==
  LET x == BD_truncate(num, decimals)
      up == num.scale > decimals /\ num.mag[num.scale - decimals] >= 5
      m == MagShift(x.mag, AsU8(decimals) - x.scale)
  IN  [neg |-> num.neg, mag |-> IF up THEN MagAdd(m, <<1>>) ELSE m]

\* BigInt.fromString(num.truncate(decimals).times(10^decimals).toString()):
\* the product is a whole number, read back as a BigInt
\* the decimal is cut at `decimals` places and multiplied by 10^(decimals as u8),
\* a shift of its digits; a product that is no whole number cannot be read back
scaleUp(num, decimals) ==
  LET x == BD_truncate(num, decimals)
  IN  IF x.scale <= AsU8(decimals)
      THEN [neg |-> x.neg, mag |-> MagShift(x.mag, AsU8(decimals) - x.scale)]
      ELSE Null


(***************************************************************************)
(* The entities and the chain.                                             *)
(***************************************************************************)
VAULT_ADDRESS == "vault"
ZERO_ADDRESS == "0x0"

Has(f, k) == k \in DOMAIN f
Put(f, k, v) == (k :> v) @@ f

\* PoolToken and PoolSnapshot ids: poolId-tokenAddress, poolId-day
getPoolTokenId(poolId, tokenAddress) == <<poolId, tokenAddress>>
\* PoolShare id: poolAddress-lpAddress
getPoolShareId(poolControllerAddress, lpAddress) == <<poolControllerAddress, lpAddress>>

\* the first 42 characters of a pool id are the pool's address
getPoolAddress(poolId) ==
  CASE poolId = "P1" -> "p1"
    [] poolId = "P2" -> "p2"
    [] OTHER -> "p0"

\* ERC20.try_decimals() of the tokens of the model: A has 6 decimals, the
\* call to X reverts, every other token has 18
try_decimals(tokenAddress) ==
  [reverted |-> tokenAddress = "X", value |-> IF tokenAddress = "A" THEN 6 ELSE 18]

\* ERC20.try_name() and try_symbol(): both calls to X revert, and the call
\* for the symbol of Y
try_name(tokenAddress) == [reverted |-> tokenAddress = "X", value |-> "Token"]
try_symbol(tokenAddress) == [reverted |-> tokenAddress \in {"X", "Y"}, value |-> "TKN"]

\* ComposableStablePool.try_isTokenExemptFromYieldProtocolFee(token): the call
\* reverts for X; Y is exempt
try_isTokenExemptFromYieldProtocolFee(poolAddress, tokenAddress) ==
  [reverted |-> tokenAddress = "X", value |-> tokenAddress = "Y"]

\* try_getRateProviders() of a weighted pool: p1 has two rate providers, the
\* first of them the zero address; the call to any other pool reverts
try_getRateProviders(poolAddress) ==
  [reverted |-> poolAddress # "p1", value |-> <<"0x0", "rp">>]

\* mutant of getTokenDecimals: every token is taken to have 18 decimals
getTokenDecimals_18(tokenAddress) == 18

getTokenDecimals(tokenAddress) ==
  LET result == try_decimals(tokenAddress)
  IN  IF result.reverted THEN 0 ELSE result.value

isComposableStablePool(pool) == pool.poolType = "ComposableStable"
isManagedPool(pool) == pool.poolType = "Managed"
isStableLikePool(pool) ==
  pool.poolType \in {"Stable", "MetaStable", "StablePhantom", "ComposableStable"}
hasVirtualSupply(pool) ==
  pool.poolType = "StablePhantom" \/ isComposableStablePool(pool) \/ isManagedPool(pool)

\* the Boolean fields of a Pool that were never set read as false, its
\* poolTypeVersion as 0
newPoolEntity(poolId) ==
  [address |-> getPoolAddress(poolId), poolType |-> "Weighted", tokensList |-> <<>>,
   totalShares |-> ZERO_BD, swapsCount |-> 0, holdersCount |-> 0,
   amp |-> Null, latestAmpUpdate |-> Null,
   lastPostJoinExitInvariant |-> Null, lastJoinExitAmp |-> Null,
   isPaused |-> FALSE, swapEnabledInternal |-> FALSE,
   swapEnabled |-> FALSE, swapEnabledCurationSignal |-> FALSE,
   poolTypeVersion |-> 0]

createUserEntity(s, address) == [s EXCEPT !.user = @ \cup {address}]

createToken(s, tokenAddress) ==
  LET maybeName == try_name(tokenAddress)
      maybeSymbol == try_symbol(tokenAddress)
      maybeDecimals == try_decimals(tokenAddress)
  IN  [s EXCEPT !.token = Put(@, tokenAddress,
        [name |-> IF maybeName.reverted THEN "" ELSE maybeName.value,
         symbol |-> IF maybeSymbol.reverted THEN "" ELSE maybeSymbol.value,
         decimals |-> IF maybeDecimals.reverted THEN 0 ELSE maybeDecimals.value,
         totalBalanceNotional |-> ZERO_BD,
         totalSwapCount |-> 0,
         latestFXPrice |-> Null,
         fxOracleDecimals |-> 0])]

\* the store after getToken: the Token entity exists
getToken(s, tokenAddress) ==
  IF Has(s.token, tokenAddress) THEN s ELSE createToken(s, tokenAddress)

\* poolToken.isExemptFromYieldProtocolFee, Null when it is left unset
IsExemptFromYieldProtocolFee(pool, tokenAddress, tokenIndex) ==
  IF isComposableStablePool(pool)
  THEN LET isTokenExemptCall ==
             try_isTokenExemptFromYieldProtocolFee(pool.address, tokenAddress)
       IN  IF ~isTokenExemptCall.reverted THEN isTokenExemptCall.value ELSE Null
  ELSE IF pool.poolType = "Weighted" /\ pool.poolTypeVersion = 4
  THEN LET rateProvidersCall == try_getRateProviders(pool.address)
       IN  IF ~rateProvidersCall.reverted /\ Len(rateProvidersCall.value) > tokenIndex
           THEN rateProvidersCall.value[tokenIndex + 1] = ZERO_ADDRESS
           ELSE Null
  ELSE Null

createPoolTokenEntity(s, poolId, tokenAddress, tokenIndex) ==
  LET symbolCall == try_symbol(tokenAddress)
      nameCall == try_name(tokenAddress)
      decimalCall == try_decimals(tokenAddress)
      s1 == getToken(s, tokenAddress)
  IN  [s1 EXCEPT !.poolToken = Put(@, getPoolTokenId(poolId, tokenAddress),
        [name |-> IF nameCall.reverted THEN "" ELSE nameCall.value,
         symbol |-> IF symbolCall.reverted THEN "" ELSE symbolCall.value,
         decimals |-> IF decimalCall.reverted THEN 18 ELSE decimalCall.value,
         balance |-> ZERO_BD,
         cashBalance |-> ZERO_BD,
         managedBalance |-> ZERO_BD,
         priceRate |-> ONE_BD,
         index |-> tokenIndex,
         isExemptFromYieldProtocolFee |->
            IsExemptFromYieldProtocolFee(s.pool[poolId], tokenAddress, tokenIndex)])]

createPoolShareEntity(s, poolId, lpAddress) ==
  LET s1 == createUserEntity(s, lpAddress)
  IN  [s1 EXCEPT !.poolShare =
        Put(@, getPoolShareId(getPoolAddress(poolId), lpAddress), [balance |-> ZERO_BD])]

\* the store after getPoolShare: the PoolShare entity exists
getPoolShare(s, poolId, lpAddress) ==
  IF Has(s.poolShare, getPoolShareId(getPoolAddress(poolId), lpAddress))
  THEN s
  ELSE createPoolShareEntity(s, poolId, lpAddress)

(***************************************************************************)
(* Daily snapshot.                                                         *)
(***************************************************************************)
DAY == 24 * 60 * 60

\* an element of `new Array<BigDecimal>(n)` that was never assigned
Hole == "unset"

\* mutant of createPoolSnapshot: a snapshot that exists is kept as it is
createPoolSnapshot_keepFirst(s, poolId, timestamp) ==
  LET pool == s.pool[poolId]
      dayTimestamp == timestamp - (timestamp % DAY)
      tokens == pool.tokensList
  IN  IF Has(s.poolSnapshot, <<poolId, dayTimestamp>>) THEN s
      ELSE [s EXCEPT !.poolSnapshot = Put(@, <<poolId, dayTimestamp>>,
        [pool |-> poolId,
         amounts |-> [i \in 1..Len(tokens) |->
                        IF Has(s.poolToken, getPoolTokenId(poolId, tokens[i]))
                        THEN s.poolToken[getPoolTokenId(poolId, tokens[i])].balance
                        ELSE Hole],
         totalShares |-> pool.totalShares,
         swapsCount |-> pool.swapsCount,
         holdersCount |-> pool.holdersCount,
         timestamp |-> dayTimestamp])]

createPoolSnapshot(s, poolId, timestamp) ==
  LET pool == s.pool[poolId]
      dayTimestamp == timestamp - (timestamp % DAY)
      tokens == pool.tokensList
      amounts == [i \in 1..Len(tokens) |->
                    IF Has(s.poolToken, getPoolTokenId(poolId, tokens[i]))
                    THEN s.poolToken[getPoolTokenId(poolId, tokens[i])].balance
                    ELSE Hole]
  IN  [s EXCEPT !.poolSnapshot = Put(@, <<poolId, dayTimestamp>>,
        [pool |-> poolId,
         amounts |-> amounts,
         totalShares |-> pool.totalShares,
         swapsCount |-> pool.swapsCount,
         holdersCount |-> pool.holdersCount,
         timestamp |-> dayTimestamp])]

\* mutant of updatePoolLiquidity: no snapshot is taken
updatePoolLiquidity_none(s, poolId, timestamp) == s

updatePoolLiquidity(s, poolId, timestamp) ==
  IF ~Has(s.pool, poolId) THEN s ELSE createPoolSnapshot(s, poolId, timestamp)

(***************************************************************************)
(* The share-transfer handler (poolController.handleTransfer), which the  *)
(* Vault handlers call with synthetic Transfer events.                    *)
(***************************************************************************)
BPT_DECIMALS == 18

handleTransfer(s, t) ==
  LET ids == {id \in DOMAIN s.pool : s.pool[id].address = t.address}
  IN  IF ids = {} THEN s
      ELSE
      LET poolId == CHOOSE id \in ids : TRUE
          isMint == t.from = ZERO_ADDRESS
          isBurn == t.to = ZERO_ADDRESS
          s1 == getPoolShare(getPoolShare(s, poolId, t.from), poolId, t.to)
          fromId == getPoolShareId(getPoolAddress(poolId), t.from)
          toId == getPoolShareId(getPoolAddress(poolId), t.to)
          fromBefore == s1.poolShare[fromId].balance
          toBefore == s1.poolShare[toId].balance
          value == tokenToDecimal(t.value, BPT_DECIMALS)
          s2 == IF isMint
                THEN [s1 EXCEPT !.poolShare[toId].balance = BD_plus(@, value)]
                ELSE IF isBurn
                THEN [s1 EXCEPT !.poolShare[fromId].balance = BD_minus(@, value)]
                ELSE [s1 EXCEPT !.poolShare[toId].balance = BD_plus(@, value),
                                !.poolShare[fromId].balance = BD_minus(@, value)]
          shares == IF isMint THEN BD_plus(s1.pool[poolId].totalShares, value)
                    ELSE IF isBurn THEN BD_minus(s1.pool[poolId].totalShares, value)
                    ELSE s1.pool[poolId].totalShares
          up == IF s2.poolShare[toId].balance # ZERO_BD /\ toBefore = ZERO_BD THEN 1 ELSE 0
          down == IF s2.poolShare[fromId].balance = ZERO_BD /\ fromBefore # ZERO_BD THEN 1 ELSE 0
      IN  [s2 EXCEPT !.pool[poolId].totalShares = shares,
                     !.pool[poolId].holdersCount = @ + up - down]

(***************************************************************************)
(* The Vault handlers.  A handler returns                                  *)
(*   store: the entity store with every save() it made,                   *)
(*   end  : "applied", "skipped" (an early return) or "aborted" (a throw),*)
(*   sent : the synthetic Transfer events it passed to handleTransfer.    *)
(***************************************************************************)
Ret(s, end, sent) == [store |-> s, end |-> end, sent |-> sent]

RECURSIVE SumOf(_, _)
\* amounts.reduce((sum, amount) => sum.plus(amount), 0), from index i on
SumOf(amounts, i) ==
  IF i > Len(amounts) THEN ZERO ELSE BI_plus(amounts[i], SumOf(amounts, i + 1))

\* mutant of PoolTokenMissing: the first loop skips a missing PoolToken (continue)
PoolTokenMissing_unchecked(s, poolId, tokenAddresses) == FALSE

\* the first loop of handlePoolJoined / handlePoolExited throws on a missing PoolToken
PoolTokenMissing(s, poolId, tokenAddresses) ==
  \E i \in 1..Len(tokenAddresses) :
     ~Has(s.poolToken, getPoolTokenId(poolId, tokenAddresses[i]))

RECURSIVE JoinBalances(_, _, _, _)
\* mutant of JoinBalances: the protocol fee is not taken off the amount
JoinBalances_gross(s, e, tokenAddresses, i) ==
  IF i > Len(tokenAddresses) THEN [store |-> s, threw |-> FALSE]
  ELSE
  LET id == getPoolTokenId(e.poolId, tokenAddresses[i])
  IN  IF ~Has(s.poolToken, id) THEN [store |-> s, threw |-> TRUE]
      ELSE
      LET tokenAmountIn == tokenToDecimal(e.deltas[i], s.poolToken[id].decimals)
          s1 == [s EXCEPT !.poolToken[id].balance = BD_plus(@, tokenAmountIn)]
          s2 == getToken(s1, tokenAddresses[i])
          s3 == [s2 EXCEPT !.token[tokenAddresses[i]].totalBalanceNotional =
                              BD_plus(@, tokenAmountIn)]
      IN  JoinBalances(s3, e, tokenAddresses, i + 1)

\* the second loop of handlePoolJoined, from index i on
JoinBalances(s, e, tokenAddresses, i) ==
  IF i > Len(tokenAddresses) THEN [store |-> s, threw |-> FALSE]
  ELSE
  LET id == getPoolTokenId(e.poolId, tokenAddresses[i])
  IN  IF ~Has(s.poolToken, id) THEN [store |-> s, threw |-> TRUE]
      ELSE
      LET amountIn == BI_minus(e.deltas[i], e.protocolFeeAmounts[i])
          tokenAmountIn == tokenToDecimal(amountIn, s.poolToken[id].decimals)
          s1 == [s EXCEPT !.poolToken[id].balance = BD_plus(@, tokenAmountIn)]
          s2 == getToken(s1, tokenAddresses[i])
          s3 == [s2 EXCEPT !.token[tokenAddresses[i]].totalBalanceNotional =
                              BD_plus(@, tokenAmountIn)]
      IN  JoinBalances(s3, e, tokenAddresses, i + 1)

RECURSIVE PreMintedBpt(_, _, _, _)
\* the loop over tokenAddresses that picks the delta at the pool's own address
PreMintedBpt(pool, amounts, i, found) ==
  IF i > Len(pool.tokensList) THEN found
  ELSE PreMintedBpt(pool, amounts, i + 1,
                    IF pool.tokensList[i] = pool.address THEN amounts[i] ELSE found)

\* mutant of JoinAmounts: the recorded amount is net of the protocol fee
JoinAmounts_net(s, e, tokenAddresses) ==
  [i \in 1..Len(tokenAddresses) |->
     IF Has(s.poolToken, getPoolTokenId(e.poolId, tokenAddresses[i]))
     THEN scaleDown(BI_minus(e.deltas[i], e.protocolFeeAmounts[i]),
                    s.poolToken[getPoolTokenId(e.poolId, tokenAddresses[i])].decimals)
     ELSE Hole]

\* joinAmounts, as the first loop of handlePoolJoined fills it; an index whose
\* PoolToken is missing is never assigned (the loop throws there)
JoinAmounts(s, e, tokenAddresses) ==
  [i \in 1..Len(tokenAddresses) |->
     IF Has(s.poolToken, getPoolTokenId(e.poolId, tokenAddresses[i]))
     THEN scaleDown(e.deltas[i],
                    s.poolToken[getPoolTokenId(e.poolId, tokenAddresses[i])].decimals)
     ELSE Hole]

\* exitAmounts, as the first loop of handlePoolExited fills it
ExitAmounts(s, e, tokenAddresses) ==
  [i \in 1..Len(tokenAddresses) |->
     IF Has(s.poolToken, getPoolTokenId(e.poolId, tokenAddresses[i]))
     THEN scaleDown(BI_neg(e.deltas[i]),
                    s.poolToken[getPoolTokenId(e.poolId, tokenAddresses[i])].decimals)
     ELSE Hole]

\* mutant of TotalSharesLessPremint: the preminted amount is not subtracted
TotalSharesLessPremint_kept(totalShares, scaledPreMintedBpt) == totalShares

\* pool.totalShares.minus(scaledPreMintedBpt)
TotalSharesLessPremint(totalShares, scaledPreMintedBpt) ==
  BD_minus(totalShares, scaledPreMintedBpt)

\* mutant of IsPremintedType: every pool type is taken for a preminted one
IsPremintedType_all(pool) == TRUE

IsPremintedType(pool) ==
  pool.poolType = "StablePhantom" \/ isComposableStablePool(pool) \/ isManagedPool(pool)

\* pool.save() at the end of handlePoolJoined writes the Pool it loaded at the start
SaveJoinedPool(s, poolId, pool) == [s EXCEPT !.pool[poolId] = pool]

handlePoolJoined(s, e) ==
  IF ~Has(s.pool, e.poolId) THEN Ret(s, "skipped", <<>>)
  ELSE
  LET pool == s.pool[e.poolId]
      tokenAddresses == pool.tokensList
  IN  IF PoolTokenMissing(s, e.poolId, tokenAddresses) THEN Ret(s, "aborted", <<>>)
      ELSE
      LET join == [type |-> "Join",
                   amounts |-> JoinAmounts(s, e, tokenAddresses),
                   pool |-> e.poolId,
                   user |-> e.liquidityProvider,
                   timestamp |-> e.timestamp]
          s1 == [s EXCEPT !.joinExit = Put(@, e.id, join)]
          l == JoinBalances(s1, e, tokenAddresses, 1)
      IN  IF l.threw THEN Ret(l.store, "aborted", <<>>)
          ELSE
          LET preMintedBpt == PreMintedBpt(pool, e.deltas, 1, ZERO)
              scaledPreMintedBpt == scaleDown(preMintedBpt, 18)
              mockEvent == [address |-> pool.address, from |-> VAULT_ADDRESS,
                            to |-> ZERO_ADDRESS, value |-> preMintedBpt]
              pool1 == IF IsPremintedType(pool)
                       THEN [pool EXCEPT !.totalShares =
                                           TotalSharesLessPremint(@, scaledPreMintedBpt)]
                       ELSE pool
              s2 == IF IsPremintedType(pool) THEN handleTransfer(l.store, mockEvent)
                    ELSE l.store
              s3 == SaveJoinedPool(s2, e.poolId, pool1)
          IN  Ret(updatePoolLiquidity(s3, e.poolId, e.timestamp), "applied",
                  IF IsPremintedType(pool) THEN <<mockEvent>> ELSE <<>>)

RECURSIVE ExitBalances(_, _, _, _)
\* mutant of ExitBalances: the amount taken out is added to the balance
ExitBalances_added(s, e, tokenAddresses, i) ==
  IF i > Len(tokenAddresses) THEN [store |-> s, threw |-> FALSE]
  ELSE
  LET id == getPoolTokenId(e.poolId, tokenAddresses[i])
  IN  IF ~Has(s.poolToken, id) THEN [store |-> s, threw |-> TRUE]
      ELSE
      LET amountOut == BI_neg(BI_minus(e.deltas[i], e.protocolFeeAmounts[i]))
          tokenAmountOut == tokenToDecimal(amountOut, s.poolToken[id].decimals)
          s1 == [s EXCEPT !.poolToken[id].balance = BD_plus(@, tokenAmountOut)]
          s2 == getToken(s1, tokenAddresses[i])
          s3 == [s2 EXCEPT !.token[tokenAddresses[i]].totalBalanceNotional =
                              BD_minus(@, tokenAmountOut)]
      IN  ExitBalances(s3, e, tokenAddresses, i + 1)

\* the second loop of handlePoolExited, from index i on
ExitBalances(s, e, tokenAddresses, i) ==
  IF i > Len(tokenAddresses) THEN [store |-> s, threw |-> FALSE]
  ELSE
  LET id == getPoolTokenId(e.poolId, tokenAddresses[i])
  IN  IF ~Has(s.poolToken, id) THEN [store |-> s, threw |-> TRUE]
      ELSE
      LET amountOut == BI_neg(BI_minus(e.deltas[i], e.protocolFeeAmounts[i]))
          tokenAmountOut == tokenToDecimal(amountOut, s.poolToken[id].decimals)
          s1 == [s EXCEPT !.poolToken[id].balance = BD_minus(@, tokenAmountOut)]
          s2 == getToken(s1, tokenAddresses[i])
          s3 == [s2 EXCEPT !.token[tokenAddresses[i]].totalBalanceNotional =
                              BD_minus(@, tokenAmountOut)]
      IN  ExitBalances(s3, e, tokenAddresses, i + 1)

\* mutant of handlePoolExited: the JoinExit record of an exit is written
\* before the pool is looked up
handlePoolExited_recordFirst(s, e) ==
  IF ~Has(s.pool, e.poolId)
  THEN Ret([s EXCEPT !.joinExit = Put(@, e.id,
              [type |-> "Exit", amounts |-> <<>>, pool |-> e.poolId,
               user |-> e.liquidityProvider, timestamp |-> e.timestamp])],
           "skipped", <<>>)
  ELSE
  LET pool == s.pool[e.poolId]
      tokenAddresses == pool.tokensList
  IN  IF PoolTokenMissing(s, e.poolId, tokenAddresses) THEN Ret(s, "aborted", <<>>)
      ELSE
      LET exit == [type |-> "Exit",
                   amounts |-> ExitAmounts(s, e, tokenAddresses),
                   pool |-> e.poolId,
                   user |-> e.liquidityProvider,
                   timestamp |-> e.timestamp]
          s1 == [s EXCEPT !.joinExit = Put(@, e.id, exit)]
          l == ExitBalances(s1, e, tokenAddresses, 1)
      IN  IF l.threw THEN Ret(l.store, "aborted", <<>>)
          ELSE Ret(updatePoolLiquidity(l.store, e.poolId, e.timestamp), "applied", <<>>)

handlePoolExited(s, e) ==
  IF ~Has(s.pool, e.poolId) THEN Ret(s, "skipped", <<>>)
  ELSE
  LET pool == s.pool[e.poolId]
      tokenAddresses == pool.tokensList
  IN  IF PoolTokenMissing(s, e.poolId, tokenAddresses) THEN Ret(s, "aborted", <<>>)
      ELSE
      LET exit == [type |-> "Exit",
                   amounts |-> ExitAmounts(s, e, tokenAddresses),
                   pool |-> e.poolId,
                   user |-> e.liquidityProvider,
                   timestamp |-> e.timestamp]
          s1 == [s EXCEPT !.joinExit = Put(@, e.id, exit)]
          l == ExitBalances(s1, e, tokenAddresses, 1)
      IN  IF l.threw THEN Ret(l.store, "aborted", <<>>)
          ELSE Ret(updatePoolLiquidity(l.store, e.poolId, e.timestamp), "applied", <<>>)

\* mutant of Dispatch: a sum of zero is a Join (total >= 0)
Dispatch_nonNegative(amounts) ==
  IF Len(amounts) = 0 THEN "None"
  ELSE IF ~BI_lt(SumOf(amounts, 1), ZERO) THEN "Join"
  ELSE "Exit"

\* "Join", "Exit" or "None": where handleBalanceChange sends the event
Dispatch(amounts) ==
  IF Len(amounts) = 0 THEN "None"
  ELSE IF BI_gt(SumOf(amounts, 1), ZERO) THEN "Join"
  ELSE "Exit"

handleBalanceChange(s, e) ==
  IF Dispatch(e.deltas) = "None" THEN Ret(s, "skipped", <<>>)
  ELSE IF Dispatch(e.deltas) = "Join" THEN handlePoolJoined(s, e)
  ELSE handlePoolExited(s, e)

handleBalanceManage(s, e) ==
  IF ~Has(s.pool, e.poolId) THEN Ret(s, "skipped", <<>>)
  ELSE
  LET id == getPoolTokenId(e.poolId, e.token)
  IN  IF ~Has(s.poolToken, id) THEN Ret(s, "aborted", <<>>)
      ELSE
      LET poolToken == s.poolToken[id]
          cashDeltaAmount == tokenToDecimal(e.cashDelta, poolToken.decimals)
          managedDeltaAmount == tokenToDecimal(e.managedDelta, poolToken.decimals)
          deltaAmount == BD_plus(cashDeltaAmount, managedDeltaAmount)
          s1 == [s EXCEPT !.poolToken[id] =
                   [poolToken EXCEPT !.balance = BD_plus(@, deltaAmount),
                                     !.cashBalance = BD_plus(@, cashDeltaAmount),
                                     !.managedBalance = BD_plus(@, managedDeltaAmount)]]
          s2 == getToken(s1, e.token)
      IN  Ret([s2 EXCEPT !.token[e.token].totalBalanceNotional = BD_plus(@, deltaAmount)],
              "applied", <<>>)

\* the synthetic Transfer of an internal balance change of a pool's share token
\* mutant of MockTransfer: the transfer always goes from the vault to the user
MockTransfer_fromVault(e) ==
  [address |-> e.token, from |-> VAULT_ADDRESS, to |-> e.user,
   value |-> IF BI_lt(e.delta, ZERO) THEN BI_neg(e.delta) ELSE e.delta]

MockTransfer(e) ==
  IF BI_lt(e.delta, ZERO)
  THEN [address |-> e.token, from |-> e.user, to |-> VAULT_ADDRESS, value |-> BI_neg(e.delta)]
  ELSE [address |-> e.token, from |-> VAULT_ADDRESS, to |-> e.user, value |-> e.delta]

handleInternalBalanceChange(s, e) ==
  LET s1 == getToken(createUserEntity(s, e.user), e.token)
      balanceId == <<e.user, e.token>>
      userBalance == IF Has(s1.userInternalBalance, balanceId)
                     THEN s1.userInternalBalance[balanceId]
                     ELSE [userAddress |-> e.user, token |-> e.token, balance |-> ZERO_BD]
      scaledTransferAmount == tokenToDecimal(e.delta, getTokenDecimals(e.token))
      s2 == [s1 EXCEPT !.userInternalBalance = Put(@, balanceId,
               [userBalance EXCEPT !.balance = BD_plus(@, scaledTransferAmount)])]
  IN  IF e.token \notin s2.poolContract THEN Ret(s2, "applied", <<>>)
      ELSE Ret(handleTransfer(s2, MockTransfer(e)), "applied", <<MockTransfer(e)>>)

(* FX oracles.  FXOracle.decimals and Token.fxOracleDecimals are i32 fields: *)
(* a field that was never set reads as 0.                                   *)
\* (token, aggregator) pairs of helpers/constants
FX_ASSET_AGGREGATORS == << <<"EUR", "agg0">>, <<"A", "agg2">> >>

\* the token priced per gram out of an answer per troy ounce (VNXAU)
XAU_TOKEN == "XAU"
\* 31.1034768 * 10^8
XAU_DIVISOR == BigIntE(311034768, 1)

RECURSIVE AggregatorTokens(_, _)
\* the tokens FX_ASSET_AGGREGATORS gives the aggregator, from index i on
AggregatorTokens(aggregatorAddress, i) ==
  IF i > Len(FX_ASSET_AGGREGATORS) THEN <<>>
  ELSE (IF FX_ASSET_AGGREGATORS[i][2] = aggregatorAddress
        THEN <<FX_ASSET_AGGREGATORS[i][1]>> ELSE <<>>)
       \o AggregatorTokens(aggregatorAddress, i + 1)

RECURSIVE PushNew(_, _, _)
\* mutant of PushNew: every token of the oracle entity is pushed
PushNew_all(tokenAddressesToUpdate, tokens, i) ==
  tokenAddressesToUpdate \o SubSeq(tokens, i, Len(tokens))

\* the tokens of the oracle entity, from index i on, pushed when not yet included
PushNew(tokenAddressesToUpdate, tokens, i) ==
  IF i > Len(tokens) THEN tokenAddressesToUpdate
  ELSE PushNew(
         IF \E j \in 1..Len(tokenAddressesToUpdate) : tokenAddressesToUpdate[j] = tokens[i]
         THEN tokenAddressesToUpdate
         ELSE Append(tokenAddressesToUpdate, tokens[i]),
         tokens, i + 1)

TokenAddressesToUpdate(s, aggregatorAddress) ==
  IF Has(s.fxOracle, aggregatorAddress)
  THEN PushNew(AggregatorTokens(aggregatorAddress, 1), s.fxOracle[aggregatorAddress].tokens, 1)
  ELSE AggregatorTokens(aggregatorAddress, 1)

\* mutant of FXPrice: the oracle's divisor and decimals are not applied
FXPrice_plain(s, aggregatorAddress, tokenAddress, answer) ==
  IF tokenAddress = XAU_TOKEN
  THEN scaleDown(BI_div(BI_times(answer, BI_pow10(8)), XAU_DIVISOR), 8)
  ELSE scaleDown(answer, 8)

\* latestFXPrice of one token for an answer
FXPrice(s, aggregatorAddress, tokenAddress, answer) ==
  IF tokenAddress = XAU_TOKEN
  THEN scaleDown(BI_div(BI_times(answer, BI_pow10(8)), XAU_DIVISOR), 8)
  ELSE IF /\ Has(s.fxOracle, aggregatorAddress)
          /\ s.fxOracle[aggregatorAddress].divisor # Null
          /\ s.fxOracle[aggregatorAddress].decimals # 0
  THEN scaleDown(
         BI_div(BI_times(answer, BI_pow10(AsU8(s.fxOracle[aggregatorAddress].decimals))),
                s.fxOracle[aggregatorAddress].divisor),
         8)
  ELSE scaleDown(answer, 8)

RECURSIVE UpdateFXTokens(_, _, _, _, _, _)
\* the loop over tokenAddressesToUpdate, from index i on: the store it leaves
\* and the tokens it saved, a token.save() each, in order (`saved` so far)
UpdateFXTokens(s, e, s0, tokenAddressesToUpdate, i, saved) ==
  IF i > Len(tokenAddressesToUpdate) THEN [store |-> s, saved |-> saved]
  ELSE IF ~Has(s.token, tokenAddressesToUpdate[i])
  THEN UpdateFXTokens(s, e, s0, tokenAddressesToUpdate, i + 1, saved)
  ELSE UpdateFXTokens(
         [s EXCEPT !.token[tokenAddressesToUpdate[i]] =
            [@ EXCEPT !.fxOracleDecimals = IF @ = 0 THEN 8 ELSE @,
                      !.latestFXPrice =
                         FXPrice(s0, e.address, tokenAddressesToUpdate[i], e.current)]],
         e, s0, tokenAddressesToUpdate, i + 1,
         Append(saved, tokenAddressesToUpdate[i]))

\* the result carries, besides store, end and sent, the Token entities saved
handleAnswerUpdated(s, e) ==
  LET l == UpdateFXTokens(s, e, s, TokenAddressesToUpdate(s, e.address), 1, <<>>)
  IN  [store |-> l.store, end |-> "applied", sent |-> <<>>, saved |-> l.saved]

(***************************************************************************)
(* The curated signals of the event emitter (eventEmitter.ts).  A signal   *)
(* carries an identifier, a message (the pool id) and a value, a BigInt.   *)
(***************************************************************************)
\* 2^32 and 2^31, least significant digit first
TwoTo32 == <<6, 9, 2, 7, 6, 9, 4, 9, 2, 4>>
TwoTo31 == <<8, 4, 6, 3, 8, 4, 7, 4, 1, 2>>

\* BigInt.toI32(): the bytes of the two's complement past the fourth must be
\* the sign padding, else the conversion aborts the handler (Null); the 32
\* low bits are read as a signed integer, so 2^31 .. 2^32 - 1 come out negative
toI32(x) ==
  IF MagCmp(x.mag, TwoTo32) > 0 \/ (~x.neg /\ x.mag = TwoTo32) THEN Null
  ELSE LET u == IF x.neg THEN MagSub(TwoTo32, x.mag) ELSE x.mag
       IN  IF MagCmp(u, TwoTo31) < 0 THEN [neg |-> FALSE, mag |-> u]
           ELSE [neg |-> TRUE, mag |-> MagSub(TwoTo32, u)]

RECURSIVE MagToNat(_)
\* the number a short magnitude stands for
MagToNat(m) == IF m = <<>> THEN 0 ELSE m[1] + 10 * MagToNat(Tail(m))

\* keccak256("setSwapEnabled"), keccak256("setPoolType")
SET_SWAP_ENABLED == "0xe84220e1"
SET_POOL_TYPE == "0x23462a93"

\* the pool types a signal can name, by position (helpers/pools)
poolTypes == <<"Weighted", "Stable", "MetaStable", "StablePhantom", "ComposableStable", "Managed">>

\* `swapEnabledCurationSignal == null` on a boolean compares it with the
\* zero value, false
computeCuratedSwapEnabled(isPaused, swapEnabledCurationSignal, internalSwapEnabled) ==
  IF isPaused THEN FALSE
  ELSE IF swapEnabledCurationSignal = FALSE THEN internalSwapEnabled
  ELSE swapEnabledCurationSignal /\ internalSwapEnabled

setSwapEnabled(s, e) ==
  IF ~Has(s.pool, e.message) THEN Ret(s, "skipped", <<>>)
  ELSE
  LET pool == s.pool[e.message]
      value == toI32(e.value)
  IN  IF value = Null THEN Ret(s, "aborted", <<>>)
      ELSE IF value = ZERO
      THEN Ret([s EXCEPT !.pool[e.message] =
                  [pool EXCEPT !.swapEnabledCurationSignal = FALSE,
                               !.swapEnabled = FALSE]],
               "applied", <<>>)
      ELSE Ret([s EXCEPT !.pool[e.message] =
                  [pool EXCEPT !.swapEnabledCurationSignal = TRUE,
                               !.swapEnabled =
                                  computeCuratedSwapEnabled(pool.isPaused, TRUE,
                                                            pool.swapEnabledInternal)]],
               "applied", <<>>)

\* mutant of setPoolType: the index is not checked against the number of pool
\* types, and a position past the end reads the last type
setPoolType_unbounded(s, e) ==
  LET poolTypeIndex == toI32(e.value)
  IN  IF poolTypeIndex = Null THEN Ret(s, "aborted", <<>>)
      ELSE IF BI_lt(poolTypeIndex, ZERO) THEN Ret(s, "skipped", <<>>)
      ELSE IF ~Has(s.pool, e.message) THEN Ret(s, "skipped", <<>>)
      ELSE Ret([s EXCEPT !.pool[e.message].poolType =
                  IF BI_lt(poolTypeIndex, BigIntOf(Len(poolTypes)))
                  THEN poolTypes[MagToNat(poolTypeIndex.mag) + 1]
                  ELSE poolTypes[Len(poolTypes)]],
               "applied", <<>>)

setPoolType(s, e) ==
  LET poolTypeIndex == toI32(e.value)
  IN  IF poolTypeIndex = Null THEN Ret(s, "aborted", <<>>)
      ELSE IF BI_lt(poolTypeIndex, ZERO) \/ ~BI_lt(poolTypeIndex, BigIntOf(Len(poolTypes)))
      THEN Ret(s, "skipped", <<>>)
      ELSE IF ~Has(s.pool, e.message) THEN Ret(s, "skipped", <<>>)
      ELSE Ret([s EXCEPT !.pool[e.message].poolType =
                  poolTypes[MagToNat(poolTypeIndex.mag) + 1]],
               "applied", <<>>)

\* the two tests on the identifier, one after the other
handleLogArgument(s, e) ==
  LET first == IF e.identifier = SET_SWAP_ENABLED THEN setSwapEnabled(s, e)
               ELSE Ret(s, "skipped", <<>>)
  IN  IF first.end = "aborted" THEN first
      ELSE IF e.identifier = SET_POOL_TYPE THEN setPoolType(first.store, e)
      ELSE first

SWAP_IN == 0
SWAP_OUT == 1

\* mutant of uptickSwapsForToken: the Token is loaded and its count is not raised
uptickSwapsForToken_none(s, tokenAddress) == getToken(s, tokenAddress)

uptickSwapsForToken(s, tokenAddress) ==
  LET s1 == getToken(s, tokenAddress)
  IN  [s1 EXCEPT !.token[tokenAddress].totalSwapCount = @ + 1]

updateTokenBalances(s, tokenAddress, notionalBalance, swapDirection) ==
  LET s1 == getToken(s, tokenAddress)
  IN  IF swapDirection = SWAP_IN
      THEN [s1 EXCEPT !.token[tokenAddress].totalBalanceNotional =
                         BD_plus(@, notionalBalance)]
      ELSE IF swapDirection = SWAP_OUT
      THEN [s1 EXCEPT !.token[tokenAddress].totalBalanceNotional =
                         BD_minus(@, notionalBalance)]
      ELSE s1

\* the vault's PoolShare after a swap of the pool's own share token:
\* getPoolShare (created on first use), balance +/- scaledAmount, save()
\* mutant of VaultShareMinus: the vault's PoolShare is loaded and not decremented
VaultShareMinus_kept(s, poolId, scaledAmount) == getPoolShare(s, poolId, VAULT_ADDRESS)

VaultShareMinus(s, poolId, scaledAmount) ==
  LET s1 == getPoolShare(s, poolId, VAULT_ADDRESS)
  IN  [s1 EXCEPT !.poolShare[getPoolShareId(getPoolAddress(poolId), VAULT_ADDRESS)].balance =
                    BD_minus(@, scaledAmount)]

\* mutant of VaultSharePlus: the vault's PoolShare is loaded and not incremented
VaultSharePlus_kept(s, poolId, scaledAmount) == getPoolShare(s, poolId, VAULT_ADDRESS)

VaultSharePlus(s, poolId, scaledAmount) ==
  LET s1 == getPoolShare(s, poolId, VAULT_ADDRESS)
  IN  [s1 EXCEPT !.poolShare[getPoolShareId(getPoolAddress(poolId), VAULT_ADDRESS)].balance =
                    BD_plus(@, scaledAmount)]

\* mutant of SwapPoolTokens: the outgoing amount is not taken off tokenOut's balance
SwapPoolTokens_inOnly(s, e) ==
  LET inId == getPoolTokenId(e.poolId, e.tokenIn)
      tokenAmountIn == scaleDown(e.amountIn, s.poolToken[inId].decimals)
  IN  [s EXCEPT !.poolToken[inId].balance = BD_plus(@, tokenAmountIn)]

\* both PoolTokens are loaded before either is changed; poolTokenIn is saved
\* first, poolTokenOut second
SwapPoolTokens(s, e) ==
  LET inId == getPoolTokenId(e.poolId, e.tokenIn)
      outId == getPoolTokenId(e.poolId, e.tokenOut)
      poolTokenIn == s.poolToken[inId]
      poolTokenOut == s.poolToken[outId]
      tokenAmountIn == scaleDown(e.amountIn, poolTokenIn.decimals)
      tokenAmountOut == scaleDown(e.amountOut, poolTokenOut.decimals)
      s1 == [s EXCEPT !.poolToken = Put(@, inId,
               [poolTokenIn EXCEPT !.balance = BD_plus(@, tokenAmountIn)])]
  IN  [s1 EXCEPT !.poolToken = Put(@, outId,
         [poolTokenOut EXCEPT !.balance = BD_minus(@, tokenAmountOut)])]

(* The amplification factor of a stable pool and its invariant (helpers/stable). *)
AMP_PRECISION == BigIntOf(1000)

\* the factor at blockTimestamp on the ramp from startAmp to endAmp
calculateAmp(latestAmpUpdate, blockTimestamp) ==
  IF blockTimestamp >= latestAmpUpdate.endTimestamp THEN BigIntOf(latestAmpUpdate.endAmp)
  ELSE IF blockTimestamp <= latestAmpUpdate.startTimestamp
  THEN BigIntOf(latestAmpUpdate.startAmp)
  ELSE BigIntOf(latestAmpUpdate.startAmp
         + ((latestAmpUpdate.endAmp - latestAmpUpdate.startAmp)
              * (blockTimestamp - latestAmpUpdate.startTimestamp))
           \div (latestAmpUpdate.endTimestamp - latestAmpUpdate.startTimestamp))

\* pool.amp is brought up to date and the pool saved; a pool with no
\* amplification update on record is left alone.  Returns the store and the
\* handler's Pool object.
updateAmpFactor(s, poolId, pool, blockTimestamp) ==
  IF pool.latestAmpUpdate = Null THEN [store |-> s, pool |-> pool]
  ELSE LET pool1 == [pool EXCEPT !.amp = calculateAmp(pool.latestAmpUpdate, blockTimestamp)]
       IN  [store |-> [s EXCEPT !.pool[poolId] = pool1], pool |-> pool1]

\* the StableSwap invariant of the balances under the factor amp: a function
\* of its two arguments, kept as the term it is applied to
calculateInvariant(amp, balances) == [amp |-> amp, balances |-> balances]

RECURSIVE InvariantBalances(_, _, _, _)
\* mutant of InvariantBalances: the balances are taken without their price rates
InvariantBalances_unrated(s, poolId, pool, i) ==
  IF i > Len(pool.tokensList) THEN <<>>
  ELSE IF pool.tokensList[i] = pool.address THEN InvariantBalances(s, poolId, pool, i + 1)
  ELSE <<scaleUp(s.poolToken[getPoolTokenId(poolId, pool.tokensList[i])].balance, 18)>>
         \o InvariantBalances(s, poolId, pool, i + 1)

\* `balances` of the composable-stable branch, from index i of tokensList on:
\* balance * priceRate at 18 decimals, the pool's own share token left out
InvariantBalances(s, poolId, pool, i) ==
  IF i > Len(pool.tokensList) THEN <<>>
  ELSE IF pool.tokensList[i] = pool.address THEN InvariantBalances(s, poolId, pool, i + 1)
  ELSE LET poolToken == s.poolToken[getPoolTokenId(poolId, pool.tokensList[i])]
       IN  <<scaleUp(BD_times(poolToken.balance, poolToken.priceRate), 18)>>
             \o InvariantBalances(s, poolId, pool, i + 1)

\* scaleDown(invariantInt, 18) of the invariant term
ScaledInvariant(invariantInt) == [invariantInt |-> invariantInt, decimals |-> 18]

\* the handler's Pool object after the composable-stable branch
JoinExitInvariant(s, e, pool) ==
  IF (pool.address = e.tokenIn \/ pool.address = e.tokenOut)
     /\ isComposableStablePool(pool) /\ pool.amp # Null
  THEN LET amp == BI_times(pool.amp, AMP_PRECISION)
           invariantInt == calculateInvariant(amp, InvariantBalances(s, e.poolId, pool, 1))
       IN  [pool EXCEPT !.lastPostJoinExitInvariant = ScaledInvariant(invariantInt),
                        !.lastJoinExitAmp = pool.amp]
  ELSE pool

\* the loop of the composable-stable branch throws on a missing PoolToken
\* of a token other than the pool's own share token
InvariantTokenMissing(s, poolId, pool) ==
  \E i \in 1..Len(pool.tokensList) :
     /\ pool.tokensList[i] # pool.address
     /\ ~Has(s.poolToken, getPoolTokenId(poolId, pool.tokensList[i]))

\* `swap.tokenAmountOut == ZERO_BD || swap.tokenAmountIn == ZERO_BD`
ZeroAmountSwap(tokenAmountIn, tokenAmountOut) ==
  tokenAmountOut = ZERO_BD \/ tokenAmountIn = ZERO_BD

\* mutant of SwapRecordAndCounters: a swap with a zero amount leaves no record
\* and counts nowhere
SwapRecordAndCounters_nonZeroOnly(s, e, pool, tokenAmountIn, tokenAmountOut) ==
  IF ZeroAmountSwap(tokenAmountIn, tokenAmountOut) THEN s
  ELSE
  LET swap == [tokenIn |-> e.tokenIn, tokenAmountIn |-> tokenAmountIn,
               tokenOut |-> e.tokenOut, tokenAmountOut |-> tokenAmountOut,
               userAddress |-> e.from, poolId |-> e.poolId,
               timestamp |-> e.timestamp]
      s1 == [s EXCEPT !.swap = Put(@, e.id, swap)]
      s2 == [s1 EXCEPT !.pool[e.poolId] = [pool EXCEPT !.swapsCount = @ + 1]]
      s3 == [s2 EXCEPT !.balancer.totalSwapCount = @ + 1]
      s4 == uptickSwapsForToken(uptickSwapsForToken(s3, e.tokenIn), e.tokenOut)
      s5 == updateTokenBalances(s4, e.tokenIn, tokenAmountIn, SWAP_IN)
  IN  updateTokenBalances(s5, e.tokenOut, tokenAmountOut, SWAP_OUT)

\* the Swap record, pool.save() with the count of swaps, the Balancer's count,
\* the tokens' counts and notional balances; `pool` is the handler's Pool object
SwapRecordAndCounters(s, e, pool, tokenAmountIn, tokenAmountOut) ==
  LET swap == [tokenIn |-> e.tokenIn, tokenAmountIn |-> tokenAmountIn,
               tokenOut |-> e.tokenOut, tokenAmountOut |-> tokenAmountOut,
               userAddress |-> e.from, poolId |-> e.poolId,
               timestamp |-> e.timestamp]
      s1 == [s EXCEPT !.swap = Put(@, e.id, swap)]
      s2 == [s1 EXCEPT !.pool[e.poolId] = [pool EXCEPT !.swapsCount = @ + 1]]
      s3 == [s2 EXCEPT !.balancer.totalSwapCount = @ + 1]
      s4 == uptickSwapsForToken(uptickSwapsForToken(s3, e.tokenIn), e.tokenOut)
      s5 == updateTokenBalances(s4, e.tokenIn, tokenAmountIn, SWAP_IN)
  IN  updateTokenBalances(s5, e.tokenOut, tokenAmountOut, SWAP_OUT)

handleSwapEvent(s, e) ==
  LET s0 == createUserEntity(s, e.from)
  IN  IF ~Has(s0.pool, e.poolId) THEN Ret(s0, "skipped", <<>>)
      ELSE
      LET amped == IF isStableLikePool(s0.pool[e.poolId])
                   THEN updateAmpFactor(s0, e.poolId, s0.pool[e.poolId], e.timestamp)
                   ELSE [store |-> s0, pool |-> s0.pool[e.poolId]]
          pool == amped.pool
          burns == hasVirtualSupply(pool) /\ e.tokenIn = pool.address
          mints == hasVirtualSupply(pool) /\ e.tokenOut = pool.address
          scaledIn == tokenToDecimal(e.amountIn, 18)
          scaledOut == tokenToDecimal(e.amountOut, 18)
          pool1 == IF burns THEN [pool EXCEPT !.totalShares = BD_minus(@, scaledIn)]
                   ELSE pool
          s1 == IF burns THEN VaultShareMinus(amped.store, e.poolId, scaledIn)
                ELSE amped.store
          pool2 == IF mints THEN [pool1 EXCEPT !.totalShares = BD_plus(@, scaledOut)]
                   ELSE pool1
          s2 == IF mints THEN VaultSharePlus(s1, e.poolId, scaledOut) ELSE s1
          inId == getPoolTokenId(e.poolId, e.tokenIn)
          outId == getPoolTokenId(e.poolId, e.tokenOut)
      IN  IF ~Has(s2.poolToken, inId) \/ ~Has(s2.poolToken, outId)
          THEN Ret(s2, "skipped", <<>>)
          ELSE
          LET tokenAmountIn == scaleDown(e.amountIn, s2.poolToken[inId].decimals)
              tokenAmountOut == scaleDown(e.amountOut, s2.poolToken[outId].decimals)
              s4 == SwapPoolTokens(s2, e)
              isJoinExitSwap == pool.address = e.tokenIn \/ pool.address = e.tokenOut
          IN  IF isJoinExitSwap /\ isComposableStablePool(pool)
                 /\ InvariantTokenMissing(s4, e.poolId, pool)
              THEN Ret(s4, "aborted", <<>>)
              ELSE
              LET pool3 == JoinExitInvariant(s4, e, pool2)
                  s10 == SwapRecordAndCounters(s4, e, pool3, tokenAmountIn, tokenAmountOut)
              IN  IF ZeroAmountSwap(tokenAmountIn, tokenAmountOut)
                  THEN Ret(s10, "applied", <<>>)
                  ELSE Ret(updatePoolLiquidity(s10, e.poolId, e.timestamp), "applied", <<>>)

(***************************************************************************)
(* The pools the Vault knows when the event stream starts: P1, a weighted *)
(* pool of A (6 decimals) and B (18 decimals); P2, a pool with preminted  *)
(* shares whose own share token p2 is the second of its three tokens.     *)
(* P0 is a pool id the store does not hold.  A start-up may lack one      *)
(* PoolToken of a registered token: the case the handlers guard against.  *)
(***************************************************************************)
PoolIds == {"P1", "P2"}

TokensOf(poolId) == IF poolId = "P1" THEN <<"A", "B">> ELSE <<"A", "p2", "B">>

\* an amplification update on record: the factor goes from 100 to 200
\* between the first and the last block of the model
AmpRamp ==
  [startAmp |-> 100, endAmp |-> 200, startTimestamp |-> 50000, endTimestamp |-> 90000]

\* a price rate of 1.5
RateOneAndAHalf == [neg |-> FALSE, mag |-> <<5, 1>>, scale |-> 1]

\* (type of P2, PoolTokens that were never created, amplification update of
\* P2, price rate of B in P2, <<isPaused, swapEnabledInternal,
\* poolTypeVersion>> of P1)
Setups ==
  { <<"ComposableStable", {}, AmpRamp, RateOneAndAHalf, <<FALSE, TRUE, 4>> >>,
    <<"ComposableStable", {<<"P2", "B">>}, AmpRamp, ONE_BD, <<TRUE, TRUE, 0>> >>,
    <<"StablePhantom", {<<"P2", "p2">>, <<"P1", "B">>}, AmpRamp, ONE_BD, <<FALSE, FALSE, 4>> >>,
    <<"ComposableStable", {}, Null, ONE_BD, <<TRUE, FALSE, 0>> >> }

EmptyStore ==
  [pool |-> <<>>, poolToken |-> <<>>, token |-> <<>>, poolShare |-> <<>>,
   user |-> {}, joinExit |-> <<>>, swap |-> <<>>, poolSnapshot |-> <<>>,
   balancer |-> [totalSwapCount |-> 0],
   userInternalBalance |-> <<>>, poolContract |-> {}, fxOracle |-> <<>>]

RECURSIVE RegisterTokens(_, _, _, _)
\* createPoolTokenEntity for every registered token of the pool but the missing ones
RegisterTokens(s, poolId, missing, i) ==
  IF i > Len(TokensOf(poolId)) THEN s
  ELSE RegisterTokens(
         IF <<poolId, TokensOf(poolId)[i]>> \in missing THEN s
         ELSE createPoolTokenEntity(s, poolId, TokensOf(poolId)[i], i - 1),
         poolId, missing, i + 1)

NewPool(s, poolId, poolType, poolTypeVersion, missing) ==
  LET pool == [newPoolEntity(poolId) EXCEPT !.poolType = poolType,
                                            !.poolTypeVersion = poolTypeVersion,
                                            !.tokensList = TokensOf(poolId)]
  IN  RegisterTokens([s EXCEPT !.pool = Put(@, poolId, pool),
                               !.poolContract = @ \cup {pool.address}],
                     poolId, missing, 1)

\* the stable pool P2 with its amplification update and the price rate of B
WithAmpAndRate(s, latestAmpUpdate, priceRate) ==
  LET s1 == [s EXCEPT !.pool["P2"].latestAmpUpdate = latestAmpUpdate,
                      !.pool["P2"].amp = IF latestAmpUpdate = Null THEN Null
                                         ELSE BigIntOf(latestAmpUpdate.startAmp)]
  IN  IF Has(s1.poolToken, getPoolTokenId("P2", "B"))
      THEN [s1 EXCEPT !.poolToken[getPoolTokenId("P2", "B")].priceRate = priceRate]
      ELSE s1

\* the FXOracle entities: agg1 declares decimals and no divisor, agg2 both,
\* agg3 a divisor and no decimals; GHOST is a token with no Token entity
FXOracles ==
  [agg1 |-> [tokens |-> <<"EUR">>, decimals |-> 10, divisor |-> Null],
   agg2 |-> [tokens |-> <<"XAU", "A">>, decimals |-> 8, divisor |-> BigIntOf(100)],
   agg3 |-> [tokens |-> <<"GHOST", "B">>, decimals |-> 0, divisor |-> BigIntOf(100)]]

\* the FX tokens and oracles, as the FX pool handlers leave them
WithFXOracles(s) ==
  [getToken(getToken(s, "EUR"), "XAU") EXCEPT !.fxOracle = FXOracles]

\* the pools as the factory and the pause / swap-enabled handlers of the pool
\* controller leave them: no curation signal yet, swapEnabled what
\* computeCuratedSwapEnabled gives; P2 is neither paused nor disabled
WithSwapFlags(s, flags) ==
  [s EXCEPT !.pool["P1"].isPaused = flags[1],
            !.pool["P1"].swapEnabledInternal = flags[2],
            !.pool["P1"].swapEnabled = computeCuratedSwapEnabled(flags[1], FALSE, flags[2]),
            !.pool["P2"].swapEnabledInternal = TRUE,
            !.pool["P2"].swapEnabled = TRUE]

InitialStore(setup) ==
  WithSwapFlags(
    WithFXOracles(
      WithAmpAndRate(
        NewPool(NewPool(EmptyStore, "P1", "Weighted", setup[5][3], setup[2]),
                "P2", setup[1], 0, setup[2]),
        setup[3], setup[4])),
    setup[5])

(***************************************************************************)
(* The events of the stream.                                               *)
(***************************************************************************)
MaxEvents == 2

\* block timestamps: two in the day that starts at 0, one in the next day
Timestamps == {50000, 60000, 90000}

\* amounts of whole tokens (A has 6 decimals, B and p2 have 18), and fees
V == <<BigIntE(1, 6), BigIntE(2, 18)>>
W == <<BigIntE(1, 6), BigIntE(5, 18), BigIntE(2, 18)>>
Neg(v) == [i \in 1..Len(v) |-> BI_neg(v[i])]
NoFee(v) == [i \in 1..Len(v) |-> ZERO]
Fee(v) == [i \in 1..Len(v) |-> BigIntE(1, 3)]

\* (poolId, deltas, protocolFeeAmounts)
BalanceChangedInputs ==
  { <<"P1", V, NoFee(V)>>, <<"P1", V, Fee(V)>>,
    <<"P1", Neg(V), NoFee(V)>>, <<"P1", Neg(V), Fee(V)>>,
    <<"P1", <<BigIntE(1, 6), BigIntE(-1, 6)>>, NoFee(V)>>,
    <<"P1", <<>>, <<>>>>,
    <<"P2", W, NoFee(W)>>, <<"P2", Neg(W), NoFee(W)>>,
    <<"P0", V, NoFee(V)>>, <<"P0", Neg(V), NoFee(V)>> }

\* (poolId, token, cashDelta, managedDelta)
BalanceManagedInputs ==
  { <<"P1", "A", BigIntE(-5, 5), BigIntE(15, 5)>>,
    <<"P2", "B", ZERO, BigIntE(1, 18)>>,
    <<"P0", "A", BigIntE(1, 6), ZERO>> }

\* (poolId, tokenIn, tokenOut, amountIn, amountOut)
SwapInputs ==
  { <<"P1", "A", "B", BigIntE(1, 6), BigIntE(1, 18)>>,
    <<"P1", "A", "B", ZERO, BigIntE(1, 18)>>,
    <<"P1", "A", "A", BigIntE(1, 6), BigIntE(2, 6)>>,
    <<"P2", "A", "p2", BigIntE(1, 6), BigIntE(3, 18)>>,
    <<"P2", "p2", "A", BigIntE(3, 18), BigIntE(1, 6)>>,
    <<"P2", "p2", "p2", BigIntE(3, 18), BigIntE(1, 18)>>,
    <<"P2", "A", "B", BigIntE(1, 6), BigIntE(1, 18)>>,
    <<"P0", "A", "B", BigIntE(1, 6), BigIntE(1, 18)>> }

NoEvent ==
  [kind |-> "None", id |-> 0, timestamp |-> 0, poolId |-> "P0",
   deltas |-> <<>>, protocolFeeAmounts |-> <<>>, liquidityProvider |-> "lp",
   token |-> "A", cashDelta |-> ZERO, managedDelta |-> ZERO,
   tokenIn |-> "A", tokenOut |-> "A", amountIn |-> ZERO, amountOut |-> ZERO,
   from |-> "user", user |-> "user", delta |-> ZERO,
   address |-> "agg0", current |-> ZERO,
   identifier |-> "0x0", message |-> "P0", value |-> ZERO,
   raw |-> ZERO, decimals |-> 0, num |-> ZERO_BD,
   scaledDown |-> ZERO_BD, asDecimal |-> ZERO_BD, scaledUp |-> ZERO, scaledUpAgain |-> ZERO,
   tokenIndex |-> 0,
   end |-> "none", sent |-> <<>>, saved |-> <<>>]

(***************************************************************************)
(* State.                                                                  *)
(*   store        the entity store                                        *)
(*   now          the timestamp of the current block                      *)
(*   nEvents      events handled so far; the next event's tx+logIndex id  *)
(*   halted       a handler threw: the indexer stops                      *)
(*   last, prev   the last event with its outcome, the store before it    *)
(*   last2, prev2 the event before that, the store before it              *)
(*   log          every event handled so far, with its outcome            *)
(* An event record carries its outcome: end, sent and, for an answer      *)
(* update, saved (the Token entities the handler saved, in order); a      *)
(* conversion carries its results.                                        *)
(***************************************************************************)
VARIABLES store, now, nEvents, halted, last, prev, last2, prev2, log

vars == <<store, now, nEvents, halted, last, prev, last2, prev2, log>>

Init ==
  /\ \E setup \in Setups : store = InitialStore(setup)
  /\ now = 50000
  /\ nEvents = 0
  /\ halted = FALSE
  /\ last = NoEvent
  /\ last2 = NoEvent
  /\ prev = store
  /\ prev2 = store
  /\ log = <<>>

\* the event e was handled with result r
Handled(e, r) ==
  /\ store' = r.store
  /\ halted' = (r.end = "aborted")
  /\ nEvents' = nEvents + 1
  /\ last' = [e EXCEPT !.end = r.end, !.sent = r.sent]
  /\ prev' = store
  /\ last2' = last
  /\ prev2' = prev
  /\ log' = Append(log, [e EXCEPT !.end = r.end, !.sent = r.sent])
  /\ now' = now

CanHandle == ~halted /\ nEvents < MaxEvents

\* the chain moves on to a later block, while events are still to come
NewBlock ==
  /\ CanHandle
  /\ \E t \in Timestamps : t > now /\ now' = t
  /\ UNCHANGED <<store, nEvents, halted, last, prev, last2, prev2, log>>

PoolBalanceChanged ==
  /\ CanHandle
  /\ \E in \in BalanceChangedInputs :
       LET e == [NoEvent EXCEPT !.kind = "PoolBalanceChanged", !.id = nEvents + 1,
                                !.timestamp = now, !.poolId = in[1],
                                !.deltas = in[2], !.protocolFeeAmounts = in[3]]
       IN  Handled(e, handleBalanceChange(store, e))

PoolBalanceManaged ==
  /\ CanHandle
  /\ \E in \in BalanceManagedInputs :
       LET e == [NoEvent EXCEPT !.kind = "PoolBalanceManaged", !.id = nEvents + 1,
                                !.timestamp = now, !.poolId = in[1], !.token = in[2],
                                !.cashDelta = in[3], !.managedDelta = in[4]]
       IN  Handled(e, handleBalanceManage(store, e))

Swap ==
  /\ CanHandle
  /\ \E in \in SwapInputs :
       LET e == [NoEvent EXCEPT !.kind = "Swap", !.id = nEvents + 1,
                                !.timestamp = now, !.poolId = in[1],
                                !.tokenIn = in[2], !.tokenOut = in[3],
                                !.amountIn = in[4], !.amountOut = in[5]]
       IN  Handled(e, handleSwapEvent(store, e))

Next == NewBlock \/ PoolBalanceChanged \/ PoolBalanceManaged \/ Swap

Spec == Init /\ [][Next]_vars

(***************************************************************************)
(* The stream of InternalBalanceChanged events.  handleInternalBalanceChange *)
(* writes User, Token and UserInternalBalance and, through handleTransfer, *)
(* PoolShare and Pool; it reads nothing the other Vault handlers write     *)
(* but the Token entities.                                                 *)
(***************************************************************************)
\* (user, token, delta): A is a plain token, p2 the share token of P2, X a
\* token whose decimals() reverts
InternalBalanceInputs ==
  {"u1", "u2"} \X {"A", "p2", "X"} \X {BigIntE(15, 5), BigIntE(-5, 5), ZERO}

InternalBalanceChanged ==
  /\ CanHandle
  /\ \E in \in InternalBalanceInputs :
       LET e == [NoEvent EXCEPT !.kind = "InternalBalanceChanged", !.id = nEvents + 1,
                                !.timestamp = now, !.user = in[1], !.token = in[2],
                                !.delta = in[3]]
       IN  Handled(e, handleInternalBalanceChange(store, e))

NextInternal == InternalBalanceChanged

SpecInternal == Init /\ [][NextInternal]_vars

(***************************************************************************)
(* The stream of AnswerUpdated events of the FX aggregators.               *)
(* handleAnswerUpdated writes Token.latestFXPrice and fxOracleDecimals,    *)
(* which no other handler of the model reads or writes.                    *)
(***************************************************************************)
\* answers at 8 decimals: 1.23456789, 31.1034768 and -0.0000025
Answers == {BigIntOf(123456789), BigIntE(311034768, 1), BigIntOf(-250)}

AnswerUpdated ==
  /\ CanHandle
  /\ \E aggregatorAddress \in {"agg0", "agg1", "agg2", "agg3"}, answer \in Answers :
       LET e == [NoEvent EXCEPT !.kind = "AnswerUpdated", !.id = nEvents + 1,
                                !.timestamp = now, !.address = aggregatorAddress,
                                !.current = answer]
           r == handleAnswerUpdated(store, e)
       IN  Handled([e EXCEPT !.saved = r.saved], r)

NextOracle == AnswerUpdated

SpecOracle == Init /\ [][NextOracle]_vars

(***************************************************************************)
(* The stream of LogArgument events of the event emitter.  The signal     *)
(* handlers read and write Pool entities only.                             *)
(***************************************************************************)
\* 2^31, 2^32 + 1: values past the range of an i32
\* (identifier, message, value); an identifier that names no handler comes
\* with one message and value
SignalInputs ==
  ( {SET_SWAP_ENABLED, SET_POOL_TYPE} \X {"P1", "P0"}
      \X { BigIntOf(-1), ZERO, BigIntOf(1), BigIntOf(Len(poolTypes)),
           [neg |-> FALSE, mag |-> TwoTo31],
           [neg |-> FALSE, mag |-> MagAdd(TwoTo32, <<1>>)] } )
  \cup { <<"0xffffffff", "P1", BigIntOf(1)>> }

LogArgument ==
  /\ CanHandle
  /\ \E in \in SignalInputs :
       LET e == [NoEvent EXCEPT !.kind = "LogArgument", !.id = nEvents + 1,
                                !.timestamp = now, !.identifier = in[1],
                                !.message = in[2], !.value = in[3]]
       IN  Handled(e, handleLogArgument(store, e))

NextSignal == LogArgument

SpecSignal == Init /\ [][NextSignal]_vars

(***************************************************************************)
(* The decimal helpers applied to raw amounts and to decimals.  A token's *)
(* decimals are what ERC20.decimals() returns, a uint8.                    *)
(***************************************************************************)
DecimalsInputs == {0, 6, 18}

\* raw amounts: 0, 1, 1.999999 and -1.5 at 6 decimals, 2 at 18 decimals and
\* a number of thirty digits
RawInputs ==
  { ZERO, BigIntOf(1), BigIntOf(1999999), BigIntE(-15, 5), BigIntE(2, 18),
    [neg |-> FALSE, mag |-> MagOfNat(123456789) \o MagOfNat(987654321)
                              \o MagOfNat(123456789) \o <<7, 7, 7>>] }

\* decimals: 1.9, -1.9, 1.5, 0.0000019 and 12.3456789
DecimalInputs ==
  { [neg |-> FALSE, mag |-> <<9, 1>>, scale |-> 1],
    [neg |-> TRUE, mag |-> <<9, 1>>, scale |-> 1],
    [neg |-> FALSE, mag |-> <<5, 1>>, scale |-> 1],
    [neg |-> FALSE, mag |-> <<9, 1>>, scale |-> 7],
    [neg |-> FALSE, mag |-> MagOfNat(123456789), scale |-> 7] }

\* a raw amount goes down with scaleDown and with tokenToDecimal, and each
\* result up again with scaleUp
ConvertRaw ==
  /\ CanHandle
  /\ \E raw \in RawInputs, decimals \in DecimalsInputs :
       LET e == [NoEvent EXCEPT !.kind = "ConvertRaw", !.id = nEvents + 1,
                                !.timestamp = now, !.raw = raw, !.decimals = decimals,
                                !.scaledDown = scaleDown(raw, decimals),
                                !.asDecimal = tokenToDecimal(raw, decimals),
                                !.scaledUp = scaleUp(scaleDown(raw, decimals), decimals),
                                !.scaledUpAgain =
                                   scaleUp(tokenToDecimal(raw, decimals), decimals)]
       IN  Handled(e, Ret(store, "applied", <<>>))

\* a decimal goes up with scaleUp
ConvertDecimal ==
  /\ CanHandle
  /\ \E num \in DecimalInputs, decimals \in DecimalsInputs :
       LET e == [NoEvent EXCEPT !.kind = "ConvertDecimal", !.id = nEvents + 1,
                                !.timestamp = now, !.num = num, !.decimals = decimals,
                                !.scaledUp = scaleUp(num, decimals)]
       IN  Handled(e, Ret(store, "applied", <<>>))

NextDecimal == ConvertRaw \/ ConvertDecimal

SpecDecimal == Init /\ [][NextDecimal]_vars

(***************************************************************************)
(* The read-through metadata calls.  A token joins a pool through          *)
(* createPoolTokenEntity, a token turns up in an internal balance through  *)
(* handleInternalBalanceChange; the calls to X and Y revert as try_name,   *)
(* try_symbol, try_decimals and try_isTokenExemptFromYieldProtocolFee say. *)
(***************************************************************************)
PoolTokenInputs == {"P1", "P2"} \X {"X", "Y", "C"} \X {0, 3}

PoolTokenCreated ==
  /\ CanHandle
  /\ \E in \in PoolTokenInputs :
       LET e == [NoEvent EXCEPT !.kind = "PoolTokenCreated", !.id = nEvents + 1,
                                !.timestamp = now, !.poolId = in[1], !.token = in[2],
                                !.tokenIndex = in[3]]
       IN  Handled(e, Ret(createPoolTokenEntity(store, in[1], in[2], in[3]),
                          "applied", <<>>))

NextMetadata == PoolTokenCreated \/ InternalBalanceChanged

SpecMetadata == Init /\ [][NextMetadata]_vars

(***************************************************************************)
(* Properties.  `last` is the event handled last, `prev` the store it     *)
(* found and `store` the store it left (NewBlock changes none of them).   *)
(***************************************************************************)
KnownPool(s, poolId) == Has(s.pool, poolId)

\* the PoolTokens of a pool, by token address
PT(s, poolId, tokenAddress) == s.poolToken[getPoolTokenId(poolId, tokenAddress)]

AllZero(amounts) == \A i \in 1..Len(amounts) : amounts[i] = ZERO

\* an applied Join / Exit: the event went through handlePoolJoined / handlePoolExited
AppliedBalanceChange(l) == l.kind = "PoolBalanceChanged" /\ l.end = "applied"
SumPositive(l) == BI_gt(SumOf(l.deltas, 1), ZERO)
AppliedJoin(l) == AppliedBalanceChange(l) /\ SumPositive(l)
AppliedExit(l) == AppliedBalanceChange(l) /\ ~SumPositive(l)

\* the vault's share balance of a pool; an absent PoolShare counts as zero
VaultShares(s, poolId) ==
  IF Has(s.poolShare, getPoolShareId(getPoolAddress(poolId), VAULT_ADDRESS))
  THEN s.poolShare[getPoolShareId(getPoolAddress(poolId), VAULT_ADDRESS)].balance
  ELSE ZERO_BD

\* C1: right after a BalanceManaged event is applied to a PoolToken, that
\* PoolToken has balance = cashBalance + managedBalance.
C1_BalanceIsCashPlusManaged ==
  (last.kind = "PoolBalanceManaged" /\ last.end = "applied") =>
     LET poolToken == PT(store, last.poolId, last.token)
     IN  poolToken.balance = BD_plus(poolToken.cashBalance, poolToken.managedBalance)

\* C2: a Join or Exit on a known pool with a token of tokensList that has no
\* PoolToken aborts and leaves the whole store as it was.
C2_MissingTokenAbortsUntouched ==
  ( /\ last.kind = "PoolBalanceChanged"
    /\ Len(last.deltas) > 0
    /\ KnownPool(prev, last.poolId)
    /\ \E i \in 1..Len(prev.pool[last.poolId].tokensList) :
          ~Has(prev.poolToken,
               getPoolTokenId(last.poolId, prev.pool[last.poolId].tokensList[i])) )
  => (last.end = "aborted" /\ halted /\ store = prev)

C2_Witness ==
  /\ last.kind = "PoolBalanceChanged"
  /\ SumPositive(last)
  /\ last.poolId = "P1"
  /\ ~Has(prev.poolToken, getPoolTokenId("P1", "B"))
  /\ Has(prev.poolToken, getPoolTokenId("P1", "A"))
  /\ last.end = "aborted"

\* C3: a Join with deltas d and zero fees followed by an Exit with deltas -d
\* and zero fees brings every PoolToken balance of the pool, and the
\* totalBalanceNotional of its tokens, back to the value before the Join.
C3_JoinThenExitRestores ==
  ( /\ AppliedJoin(last2) /\ AppliedExit(last)
    /\ last.poolId = last2.poolId
    /\ last.deltas = Neg(last2.deltas)
    /\ AllZero(last2.protocolFeeAmounts) /\ AllZero(last.protocolFeeAmounts) )
  => \A i \in 1..Len(store.pool[last.poolId].tokensList) :
        LET a == store.pool[last.poolId].tokensList[i]
        IN  /\ PT(store, last.poolId, a).balance = PT(prev2, last.poolId, a).balance
            /\ store.token[a].totalBalanceNotional = prev2.token[a].totalBalanceNotional

C3_Witness ==
  /\ AppliedJoin(last2) /\ AppliedExit(last)
  /\ last.poolId = last2.poolId
  /\ last.deltas = Neg(last2.deltas)
  /\ AllZero(last2.protocolFeeAmounts) /\ AllZero(last.protocolFeeAmounts)
  /\ PT(prev, last.poolId, "A").balance # PT(prev2, last.poolId, "A").balance
  /\ PT(store, last.poolId, "B").balance = PT(prev2, last.poolId, "B").balance

\* a swap that only mints shares (tokenOut is the pool's share token) or only
\* burns them (tokenIn is)
MintSwap(l, pool) ==
  l.kind = "Swap" /\ l.end # "aborted" /\ l.tokenOut = pool.address /\ l.tokenIn # pool.address
BurnSwap(l, pool) ==
  l.kind = "Swap" /\ l.end # "aborted" /\ l.tokenIn = pool.address /\ l.tokenOut # pool.address

DayOf(timestamp) == timestamp - (timestamp % DAY)

\* the events after which the handlers call updatePoolLiquidity
NonZeroSwap(l) == l.kind = "Swap" /\ l.amountIn # ZERO /\ l.amountOut # ZERO
Refreshes(l) == l.end = "applied" /\ (l.kind = "PoolBalanceChanged" \/ NonZeroSwap(l))

\* the balances of a pool's tokens in tokensList order
CurrentAmounts(s, poolId) ==
  [i \in 1..Len(s.pool[poolId].tokensList) |->
     IF Has(s.poolToken, getPoolTokenId(poolId, s.pool[poolId].tokensList[i]))
     THEN PT(s, poolId, s.pool[poolId].tokensList[i]).balance
     ELSE Hole]

SnapshotsOf(s, poolId) == {k \in DOMAIN s.poolSnapshot : k[1] = poolId}
DaysSeen == {DayOf(t) : t \in {u \in Timestamps : u <= now}}

\* C5: there is at most one PoolSnapshot per pool and day, keyed by the start
\* of the day; a refresh leaves it with the balances, totalShares, swapsCount
\* and holdersCount of that moment (never a sum with what it held), and
\* touches no other snapshot.
C5_SnapshotLastWriteWins ==
  /\ \A k \in DOMAIN store.poolSnapshot :
        /\ k[2] \in DaysSeen
        /\ store.poolSnapshot[k].timestamp = k[2]
        /\ store.poolSnapshot[k].pool = k[1]
  /\ \A p \in PoolIds : Cardinality(SnapshotsOf(store, p)) <= Cardinality(DaysSeen)
  /\ Refreshes(last) =>
        LET k == <<last.poolId, DayOf(last.timestamp)>>
        IN  /\ DOMAIN store.poolSnapshot = DOMAIN prev.poolSnapshot \cup {k}
            /\ store.poolSnapshot[k].amounts = CurrentAmounts(store, last.poolId)
            /\ store.poolSnapshot[k].totalShares = store.pool[last.poolId].totalShares
            /\ store.poolSnapshot[k].swapsCount = store.pool[last.poolId].swapsCount
            /\ store.poolSnapshot[k].holdersCount = store.pool[last.poolId].holdersCount
            /\ \A j \in DOMAIN prev.poolSnapshot \ {k} :
                  store.poolSnapshot[j] = prev.poolSnapshot[j]

C5_Witness ==
  /\ Refreshes(last) /\ Refreshes(last2)
  /\ last.poolId = last2.poolId
  /\ last.timestamp # last2.timestamp
  /\ DayOf(last.timestamp) = DayOf(last2.timestamp)
  /\ Cardinality(SnapshotsOf(store, last.poolId)) = 1
  /\ LET k == <<last.poolId, DayOf(last.timestamp)>>
     IN  /\ prev.poolSnapshot[k].amounts # store.poolSnapshot[k].amounts
         /\ prev.poolSnapshot[k].amounts[1] # ZERO_BD
         /\ store.poolSnapshot[k].amounts = CurrentAmounts(store, last.poolId)

BalanceChangedBy(l) ==
  /\ l.end = "applied"
  /\ KnownPool(store, l.poolId)
  /\ \E i \in 1..Len(store.pool[l.poolId].tokensList) :
        LET id == getPoolTokenId(l.poolId, store.pool[l.poolId].tokensList[i])
        IN  /\ Has(prev.poolToken, id)
            /\ store.poolToken[id].balance # prev.poolToken[id].balance

SnapshotIsCurrent(l) ==
  LET k == <<l.poolId, DayOf(l.timestamp)>>
  IN  /\ Has(store.poolSnapshot, k)
      /\ \A i \in 1..Len(store.pool[l.poolId].tokensList) :
            Has(store.poolToken, getPoolTokenId(l.poolId, store.pool[l.poolId].tokensList[i]))
            => store.poolSnapshot[k].amounts[i] =
                 PT(store, l.poolId, store.pool[l.poolId].tokensList[i]).balance

\* C6 as stated: after any event (Join, Exit, BalanceManaged, Swap) that
\* changed a PoolToken balance of a known pool at timestamp t, the snapshot of
\* (pool, day(t)) exists and holds the pool's current balances.
C6_SnapshotAfterAnyBalanceChange ==
  BalanceChangedBy(last) => SnapshotIsCurrent(last)

\* C6 amended: after an applied Join or Exit, and after an applied Swap whose
\* amountIn and amountOut are both non-zero, the snapshot of (pool, day(t))
\* exists and holds the pool's current balances; an applied BalanceManaged
\* event and an applied Swap with a zero amount leave every snapshot as it was.
C6_SnapshotAfterJoinExitSwap ==
  /\ Refreshes(last) => SnapshotIsCurrent(last)
  /\ (last.end = "applied" /\ ~Refreshes(last)) => store.poolSnapshot = prev.poolSnapshot

C6_Witness ==
  /\ NonZeroSwap(last) /\ last.end = "applied"
  /\ BalanceChangedBy(last)
  /\ Has(prev.poolSnapshot, <<last.poolId, DayOf(last.timestamp)>>)
  /\ store.poolSnapshot[<<last.poolId, DayOf(last.timestamp)>>].amounts[1] =
        PT(store, last.poolId, "A").balance
  /\ store.poolSnapshot # prev.poolSnapshot

\* C7: a BalanceChanged event with no deltas changes nothing; with deltas it
\* is handled as a Join exactly when their sum is strictly positive, and as
\* an Exit otherwise (a sum of zero included).
C7_DispatchBySign ==
  last.kind = "PoolBalanceChanged" =>
    /\ Len(last.deltas) = 0 => (store = prev /\ last.end = "skipped")
    /\ (Len(last.deltas) > 0 /\ last.end = "applied") =>
          /\ Has(store.joinExit, last.id)
          /\ SumPositive(last) => store.joinExit[last.id].type = "Join"
          /\ ~SumPositive(last) => store.joinExit[last.id].type = "Exit"

C7_Witness ==
  /\ last.kind = "PoolBalanceChanged" /\ last.end = "applied"
  /\ Len(last.deltas) > 0
  /\ SumOf(last.deltas, 1) = ZERO
  /\ \E i \in 1..Len(last.deltas) : last.deltas[i] # ZERO
  /\ store.joinExit[last.id].type = "Exit"

\* C8: an applied Join or Exit changes PoolToken[i].balance by exactly
\* toDecimal(deltas[i] - protocolFeeAmounts[i], decimals), sign included, and
\* the token's totalBalanceNotional by the same amount; a Join of
\* [1_000000, 2*10^18] without fees on empty balances of a 6- and an
\* 18-decimals token leaves balances 1 and 2.
C8_BalanceDeltaIsNetOfFee ==
  AppliedBalanceChange(last) =>
    /\ \A i \in 1..Len(store.pool[last.poolId].tokensList) :
          LET a == store.pool[last.poolId].tokensList[i]
              net == tokenToDecimal(BI_minus(last.deltas[i], last.protocolFeeAmounts[i]),
                                    PT(prev, last.poolId, a).decimals)
          IN  /\ PT(store, last.poolId, a).balance =
                    BD_plus(PT(prev, last.poolId, a).balance, net)
              /\ store.token[a].totalBalanceNotional =
                    BD_plus(prev.token[a].totalBalanceNotional, net)
    /\ ( /\ last.poolId = "P1"
         /\ last.deltas = <<BigIntE(1, 6), BigIntE(2, 18)>>
         /\ AllZero(last.protocolFeeAmounts)
         /\ PT(prev, "P1", "A").balance = ZERO_BD
         /\ PT(prev, "P1", "B").balance = ZERO_BD )
       => /\ PT(store, "P1", "A").balance = [neg |-> FALSE, mag |-> <<1>>, scale |-> 0]
          /\ PT(store, "P1", "B").balance = [neg |-> FALSE, mag |-> <<2>>, scale |-> 0]

C8_Witness ==
  /\ AppliedJoin(last)
  /\ last.poolId = "P1"
  /\ \E i \in 1..Len(last.deltas) : last.protocolFeeAmounts[i] # ZERO
  /\ PT(prev, "P1", "A").decimals = 6 /\ PT(prev, "P1", "B").decimals = 18
  /\ PT(prev, "P1", "A").balance = [neg |-> FALSE, mag |-> <<1>>, scale |-> 0]
  /\ PT(prev, "P1", "B").balance = [neg |-> FALSE, mag |-> <<2>>, scale |-> 0]
  /\ PT(store, "P1", "A").balance = [neg |-> FALSE, mag |-> <<9, 9, 9, 1>>, scale |-> 3]

\* C9: an applied Join or Exit adds exactly one JoinExit record, under the
\* event's id; its amounts are the gross toDecimal(deltas[i], decimals) for a
\* Join and toDecimal(-deltas[i], decimals) for an Exit, whatever the fees:
\* the recorded amount is off the balance change by the fee.
C9_JoinExitAmountsAreGross ==
  AppliedBalanceChange(last) =>
    /\ ~Has(prev.joinExit, last.id)
    /\ DOMAIN store.joinExit = DOMAIN prev.joinExit \cup {last.id}
    /\ \A j \in DOMAIN prev.joinExit : store.joinExit[j] = prev.joinExit[j]
    /\ store.joinExit[last.id].pool = last.poolId
    /\ Len(store.joinExit[last.id].amounts) = Len(store.pool[last.poolId].tokensList)
    /\ \A i \in 1..Len(store.pool[last.poolId].tokensList) :
          LET a == store.pool[last.poolId].tokensList[i]
              d == PT(prev, last.poolId, a).decimals
              change == BD_minus(PT(store, last.poolId, a).balance,
                                 PT(prev, last.poolId, a).balance)
              fee == tokenToDecimal(last.protocolFeeAmounts[i], d)
              amount == store.joinExit[last.id].amounts[i]
          IN  IF SumPositive(last)
              THEN /\ amount = tokenToDecimal(last.deltas[i], d)
                   /\ BD_minus(amount, change) = fee
              ELSE /\ amount = tokenToDecimal(BI_neg(last.deltas[i]), d)
                   /\ BD_plus(amount, change) = BD_neg(fee)

C9_Witness ==
  /\ AppliedJoin(last)
  /\ last.protocolFeeAmounts[1] # ZERO
  /\ store.joinExit[last.id].type = "Join"
  /\ store.joinExit[last.id].amounts[1] = [neg |-> FALSE, mag |-> <<1>>, scale |-> 0]
  /\ BD_minus(PT(store, last.poolId, "A").balance, PT(prev, last.poolId, "A").balance)
        # store.joinExit[last.id].amounts[1]

\* the index of the pool's own address in its tokensList, 0 if it is not there
OwnIndex(pool) ==
  IF \E i \in 1..Len(pool.tokensList) : pool.tokensList[i] = pool.address
  THEN CHOOSE i \in 1..Len(pool.tokensList) : pool.tokensList[i] = pool.address
  ELSE 0

\* C10: a Join applied to a pool with preminted shares whose own address is at
\* index k of tokensList leaves Pool.totalShares at its value before the event
\* less toDecimal(deltas[k], 18), taken off once, and passes exactly one
\* synthetic transfer, vault -> zero address with value deltas[k], to the
\* share-transfer handler.
C10_PremintSubtractedOnce ==
  ( /\ AppliedJoin(last)
    /\ IsPremintedType(prev.pool[last.poolId])
    /\ OwnIndex(prev.pool[last.poolId]) # 0 )
  => LET k == OwnIndex(prev.pool[last.poolId])
     IN  /\ store.pool[last.poolId].totalShares =
               BD_minus(prev.pool[last.poolId].totalShares,
                        tokenToDecimal(last.deltas[k], 18))
         /\ last.sent = << [address |-> prev.pool[last.poolId].address,
                            from |-> VAULT_ADDRESS, to |-> ZERO_ADDRESS,
                            value |-> last.deltas[k]] >>

C10_Witness ==
  /\ AppliedJoin(last)
  /\ last.poolId = "P2"
  /\ IsPremintedType(prev.pool["P2"])
  /\ OwnIndex(prev.pool["P2"]) = 2
  /\ prev.pool["P2"].totalShares = [neg |-> FALSE, mag |-> <<3>>, scale |-> 0]
  /\ store.pool["P2"].totalShares = [neg |-> TRUE, mag |-> <<2>>, scale |-> 0]
  /\ Len(last.sent) = 1

\* a Swap on a pool the store holds, with a PoolToken for tokenIn and for tokenOut
SwapOnBothTokens(l, s) ==
  /\ l.kind = "Swap"
  /\ KnownPool(s, l.poolId)
  /\ Has(s.poolToken, getPoolTokenId(l.poolId, l.tokenIn))
  /\ Has(s.poolToken, getPoolTokenId(l.poolId, l.tokenOut))

\* C11: a Swap on a known pool with distinct tokenIn and tokenOut that both
\* have a PoolToken adds toDecimal(amountIn, decimals of tokenIn's PoolToken)
\* to tokenIn's balance, takes toDecimal(amountOut, decimals of tokenOut's
\* PoolToken) off tokenOut's balance, and leaves every other PoolToken of
\* every pool as it was.
C11_SwapMovesTwoBalances ==
  (SwapOnBothTokens(last, prev) /\ last.tokenIn # last.tokenOut) =>
     LET inId == getPoolTokenId(last.poolId, last.tokenIn)
         outId == getPoolTokenId(last.poolId, last.tokenOut)
     IN  /\ store.poolToken[inId].balance =
               BD_plus(prev.poolToken[inId].balance,
                       tokenToDecimal(last.amountIn, prev.poolToken[inId].decimals))
         /\ store.poolToken[outId].balance =
               BD_minus(prev.poolToken[outId].balance,
                        tokenToDecimal(last.amountOut, prev.poolToken[outId].decimals))
         /\ DOMAIN store.poolToken = DOMAIN prev.poolToken
         /\ \A id \in DOMAIN prev.poolToken \ {inId, outId} :
               store.poolToken[id] = prev.poolToken[id]

C11_Witness ==
  /\ SwapOnBothTokens(last, prev) /\ last.end = "applied"
  /\ last.poolId = "P2" /\ last.tokenIn = "A" /\ last.tokenOut = "B"
  /\ PT(prev, "P2", "A").balance = [neg |-> FALSE, mag |-> <<1>>, scale |-> 0]
  /\ PT(store, "P2", "A").balance = [neg |-> FALSE, mag |-> <<2>>, scale |-> 0]
  /\ PT(store, "P2", "B").balance = [neg |-> FALSE, mag |-> <<1>>, scale |-> 0]
  /\ PT(store, "P2", "p2").balance = [neg |-> FALSE, mag |-> <<5>>, scale |-> 0]

\* the change of a pool's share supply that a swap of the pool's own share
\* token stands for: - toDecimal(amountIn, 18) when tokenIn is the pool's
\* address, + toDecimal(amountOut, 18) when tokenOut is, on a pool with
\* virtual supply; zero otherwise
SwapShareChange(l, pool) ==
  BD_plus(
    IF hasVirtualSupply(pool) /\ l.tokenIn = pool.address
    THEN BD_neg(tokenToDecimal(l.amountIn, 18)) ELSE ZERO_BD,
    IF hasVirtualSupply(pool) /\ l.tokenOut = pool.address
    THEN tokenToDecimal(l.amountOut, 18) ELSE ZERO_BD)

\* C12: an applied Swap changes Pool.totalShares and the vault's PoolShare
\* balance of the pool by SwapShareChange, which is zero unless the pool has
\* virtual supply and tokenIn or tokenOut is the pool's address; no other
\* pool's totalShares and no other PoolShare changes.
C12_SwapSharesOnlyOnOwnToken ==
  (last.kind = "Swap" /\ last.end = "applied") =>
     LET pool == prev.pool[last.poolId]
         vaultId == getPoolShareId(pool.address, VAULT_ADDRESS)
     IN  /\ store.pool[last.poolId].totalShares =
               BD_plus(pool.totalShares, SwapShareChange(last, pool))
         /\ VaultShares(store, last.poolId) =
               BD_plus(VaultShares(prev, last.poolId), SwapShareChange(last, pool))
         /\ \A id \in DOMAIN prev.pool \ {last.poolId} :
               store.pool[id].totalShares = prev.pool[id].totalShares
         /\ \A id \in DOMAIN store.poolShare \ {vaultId} :
               Has(prev.poolShare, id) /\ store.poolShare[id] = prev.poolShare[id]
         /\ (SwapShareChange(last, pool) = ZERO_BD /\ ~Has(prev.poolShare, vaultId)
               /\ ~(hasVirtualSupply(pool) /\ pool.address \in {last.tokenIn, last.tokenOut}))
            => ~Has(store.poolShare, vaultId)

C12_Witness ==
  /\ last.kind = "Swap" /\ last.end = "applied" /\ last.poolId = "P2"
  /\ last.tokenOut = "p2" /\ last.tokenIn = "A"
  /\ last2.kind = "Swap" /\ last2.end = "applied" /\ last2.poolId = "P2"
  /\ last2.tokenIn = "A" /\ last2.tokenOut = "B"
  /\ prev.pool["P2"].totalShares = prev2.pool["P2"].totalShares
  /\ store.pool["P2"].totalShares = [neg |-> FALSE, mag |-> <<3>>, scale |-> 0]
  /\ VaultShares(store, "P2") = [neg |-> FALSE, mag |-> <<3>>, scale |-> 0]

\* C13: a Swap whose poolId is no Pool of the store leaves the whole entity
\* store, the User entities included, as it was.
C13_UnknownPoolSwapMutatesNothing ==
  (last.kind = "Swap" /\ ~KnownPool(prev, last.poolId)) => store = prev

\* C14: a Swap on a known pool with no PoolToken for tokenIn or for tokenOut
\* leaves every Pool, every PoolShare, every PoolToken and every counter
\* as it was.
C14_MissingTokenSwapMutatesNothing ==
  ( /\ last.kind = "Swap"
    /\ KnownPool(prev, last.poolId)
    /\ ~SwapOnBothTokens(last, prev) )
  => /\ store.pool = prev.pool
     /\ store.poolShare = prev.poolShare
     /\ store.poolToken = prev.poolToken
     /\ store.balancer = prev.balancer
     /\ store.token = prev.token

RECURSIVE SumSwapsCount(_, _)
\* the sum of Pool.swapsCount over a set of pool ids
SumSwapsCount(s, ids) ==
  IF ids = {} THEN 0
  ELSE LET id == CHOOSE x \in ids : TRUE
       IN  s.pool[id].swapsCount + SumSwapsCount(s, ids \ {id})

RECURSIVE AppliedSwaps(_, _)
\* the number of Swap events of the history, from index i on, that were applied
AppliedSwaps(h, i) ==
  IF i > Len(h) THEN 0
  ELSE (IF h[i].kind = "Swap" /\ h[i].end = "applied" THEN 1 ELSE 0) + AppliedSwaps(h, i + 1)

\* Token.totalSwapCount; a Token that does not exist yet has counted nothing
TokenSwapCount(s, tokenAddress) ==
  IF Has(s.token, tokenAddress) THEN s.token[tokenAddress].totalSwapCount ELSE 0

\* C15: Balancer.totalSwapCount is the sum of Pool.swapsCount over all pools
\* and the number of applied Swap events; an applied Swap adds 1 to its pool's
\* swapsCount, 1 to the Balancer's count and 1 to Token.totalSwapCount for
\* tokenIn and for tokenOut; every other event leaves these counters alone.
C15_SwapCountersAgree ==
  /\ store.balancer.totalSwapCount = SumSwapsCount(store, DOMAIN store.pool)
  /\ store.balancer.totalSwapCount = AppliedSwaps(log, 1)
  /\ LET applied == last.kind = "Swap" /\ last.end = "applied"
         one(b) == IF b THEN 1 ELSE 0
     IN  /\ store.balancer.totalSwapCount = prev.balancer.totalSwapCount + one(applied)
         /\ \A id \in DOMAIN store.pool :
               store.pool[id].swapsCount =
                  prev.pool[id].swapsCount + one(applied /\ id = last.poolId)
         /\ \A a \in DOMAIN store.token :
               store.token[a].totalSwapCount =
                  TokenSwapCount(prev, a) + one(applied /\ a = last.tokenIn)
                                          + one(applied /\ a = last.tokenOut)

C15_Witness ==
  /\ Len(log) = 2
  /\ last.kind = "Swap" /\ last.end = "applied" /\ last.poolId = "P2"
  /\ last2.kind = "Swap" /\ last2.end = "applied" /\ last2.poolId = "P1"
  /\ last.tokenIn = "A" /\ last.tokenOut = "B"
  /\ last2.tokenIn = "A" /\ last2.tokenOut = "B"
  /\ store.balancer.totalSwapCount = 2
  /\ store.pool["P1"].swapsCount = 1 /\ store.pool["P2"].swapsCount = 1
  /\ store.token["A"].totalSwapCount = 2 /\ store.token["B"].totalSwapCount = 2

\* C16: an applied Swap with amountIn or amountOut zero changes both PoolToken
\* balances, saves the Swap record under the event's id, adds 1 to the pool's,
\* the Balancer's and both tokens' swap counts and moves both tokens'
\* notional balances, as a swap with non-zero amounts does.
C16_ZeroAmountSwapStillCounts ==
  ( /\ SwapOnBothTokens(last, prev) /\ last.end = "applied"
    /\ last.tokenIn # last.tokenOut
    /\ (last.amountIn = ZERO \/ last.amountOut = ZERO) )
  => LET inId == getPoolTokenId(last.poolId, last.tokenIn)
         outId == getPoolTokenId(last.poolId, last.tokenOut)
         tokenAmountIn == tokenToDecimal(last.amountIn, prev.poolToken[inId].decimals)
         tokenAmountOut == tokenToDecimal(last.amountOut, prev.poolToken[outId].decimals)
     IN  /\ store.poolToken[inId].balance =
               BD_plus(prev.poolToken[inId].balance, tokenAmountIn)
         /\ store.poolToken[outId].balance =
               BD_minus(prev.poolToken[outId].balance, tokenAmountOut)
         /\ ~Has(prev.swap, last.id) /\ Has(store.swap, last.id)
         /\ store.swap[last.id].tokenAmountIn = tokenAmountIn
         /\ store.swap[last.id].tokenAmountOut = tokenAmountOut
         /\ store.pool[last.poolId].swapsCount = prev.pool[last.poolId].swapsCount + 1
         /\ store.balancer.totalSwapCount = prev.balancer.totalSwapCount + 1
         /\ store.token[last.tokenIn].totalSwapCount = TokenSwapCount(prev, last.tokenIn) + 1
         /\ store.token[last.tokenOut].totalSwapCount = TokenSwapCount(prev, last.tokenOut) + 1
         /\ store.token[last.tokenIn].totalBalanceNotional =
               BD_plus(prev.token[last.tokenIn].totalBalanceNotional, tokenAmountIn)
         /\ store.token[last.tokenOut].totalBalanceNotional =
               BD_minus(prev.token[last.tokenOut].totalBalanceNotional, tokenAmountOut)

C16_Witness ==
  /\ SwapOnBothTokens(last, prev) /\ last.end = "applied"
  /\ last.poolId = "P1" /\ last.tokenIn = "A" /\ last.tokenOut = "B"
  /\ last.amountIn = ZERO /\ last.amountOut # ZERO
  /\ Has(store.swap, last.id)
  /\ store.pool["P1"].swapsCount = prev.pool["P1"].swapsCount + 1
  /\ PT(store, "P1", "B").balance # PT(prev, "P1", "B").balance

\* a Swap that reaches the composable-stable branch with a factor to use
JoinExitSwapWithAmp(l, pool) ==
  /\ l.kind = "Swap" /\ l.end = "applied"
  /\ (l.tokenIn = pool.address \/ l.tokenOut = pool.address)
  /\ isComposableStablePool(pool)
  /\ pool.amp # Null

\* the applied Swap of the pool's own share token on a composable-stable pool
JoinExitSwap(l, pool) ==
  /\ l.kind = "Swap" /\ l.end = "applied"
  /\ (l.tokenIn = pool.address \/ l.tokenOut = pool.address)
  /\ isComposableStablePool(pool)

\* the term the invariant is computed from: the factor times AMP_PRECISION and
\* the rated balances at 18 decimals of every token but the pool's own
ExpectedInvariant(s, poolId) ==
  ScaledInvariant(
    calculateInvariant(
      BI_times(s.pool[poolId].amp, AMP_PRECISION),
      LET pool == s.pool[poolId]
          others == SelectSeq(pool.tokensList, LAMBDA a : a # pool.address)
      IN  [i \in 1..Len(others) |->
             scaleUp(BD_times(PT(s, poolId, others[i]).balance,
                              PT(s, poolId, others[i]).priceRate), 18)]))

\* every event but an applied swap of the pool's own share token on a
\* composable-stable pool leaves both fields of every pool as they were
InvariantFieldsFrame ==
  \A id \in DOMAIN store.pool :
     ~(last.poolId = id /\ JoinExitSwap(last, store.pool[id]))
     => /\ store.pool[id].lastPostJoinExitInvariant = prev.pool[id].lastPostJoinExitInvariant
        /\ store.pool[id].lastJoinExitAmp = prev.pool[id].lastJoinExitAmp

\* C17 as stated: only an applied Swap of the pool's own share token on a
\* composable-stable pool changes lastPostJoinExitInvariant and
\* lastJoinExitAmp; after it lastJoinExitAmp is the pool's amp and
\* lastPostJoinExitInvariant the invariant of the post-swap rated balances.
C17_InvariantAfterJoinExitSwap ==
  /\ InvariantFieldsFrame
  /\ (KnownPool(store, last.poolId) /\ JoinExitSwap(last, store.pool[last.poolId]))
     => /\ store.pool[last.poolId].lastJoinExitAmp = store.pool[last.poolId].amp
        /\ store.pool[last.poolId].amp # Null
        /\ store.pool[last.poolId].lastPostJoinExitInvariant =
              ExpectedInvariant(store, last.poolId)

\* C17, amended: as stated when the pool's amp is set; when it is not set,
\* the swap leaves both fields as they were.
C17_InvariantAfterJoinExitSwapWithAmp ==
  /\ InvariantFieldsFrame
  /\ (KnownPool(store, last.poolId) /\ JoinExitSwap(last, store.pool[last.poolId]))
     => IF store.pool[last.poolId].amp # Null
        THEN /\ store.pool[last.poolId].lastJoinExitAmp = store.pool[last.poolId].amp
             /\ store.pool[last.poolId].lastPostJoinExitInvariant =
                   ExpectedInvariant(store, last.poolId)
        ELSE /\ store.pool[last.poolId].lastPostJoinExitInvariant =
                   prev.pool[last.poolId].lastPostJoinExitInvariant
             /\ store.pool[last.poolId].lastJoinExitAmp =
                   prev.pool[last.poolId].lastJoinExitAmp

C17_Witness ==
  /\ last.kind = "Swap" /\ last.poolId = "P2"
  /\ JoinExitSwapWithAmp(last, store.pool["P2"])
  /\ last.tokenIn = "p2" /\ last.tokenOut = "A"
  /\ AppliedJoin(last2) /\ last2.poolId = "P2"
  /\ PT(store, "P2", "B").priceRate = RateOneAndAHalf
  /\ store.pool["P2"].lastJoinExitAmp = BigIntOf(200)
  /\ store.pool["P2"].lastPostJoinExitInvariant =
        ScaledInvariant(calculateInvariant(BigIntOf(200000), <<ZERO, BigIntE(3, 18)>>))

RECURSIVE SumOfDeltas(_, _, _, _, _)
\* the deltas of the InternalBalanceChanged events of the history for one
\* user and token, from index i on, each converted with `decimals` and added up
SumOfDeltas(h, user, token, decimals, i) ==
  IF i > Len(h) THEN ZERO_BD
  ELSE IF h[i].kind = "InternalBalanceChanged" /\ h[i].user = user /\ h[i].token = token
  THEN BD_plus(tokenToDecimal(h[i].delta, decimals),
               SumOfDeltas(h, user, token, decimals, i + 1))
  ELSE SumOfDeltas(h, user, token, decimals, i + 1)

\* C18: after any sequence of InternalBalanceChanged events the
\* UserInternalBalance of (user, token) exists exactly when an event named
\* the pair, and its balance is the sum of the pair's deltas, each converted
\* with the decimals of the Token entity (0 from the start).
C18_InternalBalanceIsSumOfDeltas ==
  /\ \A i \in 1..Len(log) :
        log[i].kind = "InternalBalanceChanged"
        => Has(store.userInternalBalance, <<log[i].user, log[i].token>>)
  /\ \A id \in DOMAIN store.userInternalBalance :
        /\ \E i \in 1..Len(log) :
              log[i].kind = "InternalBalanceChanged" /\ <<log[i].user, log[i].token>> = id
        /\ Has(store.token, id[2])
        /\ store.userInternalBalance[id].balance =
              SumOfDeltas(log, id[1], id[2], store.token[id[2]].decimals, 1)

C18_Witness ==
  /\ Len(log) = 2
  /\ log[1].kind = "InternalBalanceChanged" /\ log[2].kind = "InternalBalanceChanged"
  /\ log[1].user = "u1" /\ log[2].user = "u1"
  /\ log[1].token = "A" /\ log[2].token = "A"
  /\ log[1].delta = BigIntE(15, 5) /\ log[2].delta = BigIntE(-5, 5)
  /\ store.userInternalBalance[<<"u1", "A">>].balance = ONE_BD

\* C19: an InternalBalanceChanged event passes a synthetic Transfer to the
\* share-transfer handler exactly when its token is a registered pool share
\* token (a PoolContract); the Transfer has value |delta| and goes from the
\* user to the vault when delta < 0, from the vault to the user otherwise.
C19_SyntheticTransferOfShareToken ==
  last.kind = "InternalBalanceChanged" =>
     IF last.token \in prev.poolContract
     THEN last.sent =
            << IF BI_lt(last.delta, ZERO)
               THEN [address |-> last.token, from |-> last.user, to |-> VAULT_ADDRESS,
                     value |-> BI_neg(last.delta)]
               ELSE [address |-> last.token, from |-> VAULT_ADDRESS, to |-> last.user,
                     value |-> last.delta] >>
     ELSE last.sent = <<>>

C19_Witness ==
  /\ last.kind = "InternalBalanceChanged"
  /\ last.token = "p2" /\ last.token \in prev.poolContract
  /\ last.delta = BigIntE(-5, 5)
  /\ Len(last.sent) = 1
  /\ last.sent[1].from = "u1" /\ last.sent[1].to = VAULT_ADDRESS
  /\ last.sent[1].value = BigIntE(5, 5)
  /\ last2.kind = "InternalBalanceChanged" /\ last2.token = "A" /\ last2.sent = <<>>

\* the decimal m / 10^scale for a natural number m
Dec(m, scale) == BD_norm([neg |-> FALSE, mag |-> MagOfNat(m), scale |-> scale])

\* the tokens an answer of the aggregator is for: those of FX_ASSET_AGGREGATORS
\* and those of the FXOracle entity, with a Token entity
UpdatedTokens(s, aggregatorAddress) ==
  { a \in DOMAIN s.token :
      \/ \E i \in 1..Len(FX_ASSET_AGGREGATORS) :
            FX_ASSET_AGGREGATORS[i] = <<a, aggregatorAddress>>
      \/ /\ Has(s.fxOracle, aggregatorAddress)
         /\ \E i \in 1..Len(s.fxOracle[aggregatorAddress].tokens) :
               s.fxOracle[aggregatorAddress].tokens[i] = a }

\* C20: after an answer update every token to update has its latestFXPrice by
\* one rule: the precious-metal token (answer * 10^8 div 3110347680) / 10^8;
\* else, with an oracle entity that declares a divisor and decimals,
\* (answer * 10^decimals div divisor) / 10^8; else answer / 10^8.  An oracle
\* with decimals 10 and no divisor gives 1.23456789 for the answer 123456789.
\* No other token's price changes.
C20_FXPriceByOneRule ==
  last.kind = "AnswerUpdated" =>
     /\ \A a \in UpdatedTokens(prev, last.address) :
           store.token[a].latestFXPrice =
              IF a = XAU_TOKEN
              THEN tokenToDecimal(
                     BI_div(BI_times(last.current, BigIntE(1, 8)), BigIntE(311034768, 1)), 8)
              ELSE IF /\ Has(prev.fxOracle, last.address)
                      /\ prev.fxOracle[last.address].divisor # Null
                      /\ prev.fxOracle[last.address].decimals # 0
              THEN tokenToDecimal(
                     BI_div(BI_times(last.current,
                                     BigIntE(1, prev.fxOracle[last.address].decimals)),
                            prev.fxOracle[last.address].divisor), 8)
              ELSE tokenToDecimal(last.current, 8)
     /\ \A a \in DOMAIN store.token \ UpdatedTokens(prev, last.address) :
           store.token[a].latestFXPrice = prev.token[a].latestFXPrice
     /\ (last.address = "agg1" /\ last.current = BigIntOf(123456789))
           => store.token["EUR"].latestFXPrice = Dec(123456789, 8)

C20_Witness ==
  /\ last.kind = "AnswerUpdated" /\ last2.kind = "AnswerUpdated"
  /\ last2.address = "agg1" /\ last2.current = BigIntOf(123456789)
  /\ last.address = "agg2" /\ last.current = BigIntOf(123456789)
  /\ store.token["EUR"].latestFXPrice = Dec(123456789, 8)
  /\ store.token["XAU"].latestFXPrice = Dec(3969227, 8)
  /\ store.token["A"].latestFXPrice = Dec(123456789, 2)
  /\ store.token["B"].latestFXPrice = Null

\* the elements of a sequence
Elems(q) == {q[i] : i \in 1..Len(q)}

\* C21: an answer update from aggregator A writes latestFXPrice of exactly
\* the tokens FX_ASSET_AGGREGATORS maps to A and the tokens of FXOracle(A)
\* that have a Token entity; each is saved once, a token in both sources
\* included; a token with no Token entity is skipped and the rest is still
\* updated; no other Token and no other entity changes.
C21_FXTokensUpdatedOnce ==
  last.kind = "AnswerUpdated" =>
     /\ last.end = "applied"
     /\ Elems(last.saved) = UpdatedTokens(prev, last.address)
     /\ Len(last.saved) = Cardinality(UpdatedTokens(prev, last.address))
     /\ \A a \in UpdatedTokens(prev, last.address) : store.token[a].latestFXPrice # Null
     /\ DOMAIN store.token = DOMAIN prev.token
     /\ \A a \in DOMAIN prev.token \ UpdatedTokens(prev, last.address) :
           store.token[a] = prev.token[a]
     /\ [store EXCEPT !.token = prev.token] = prev

C21_Witness ==
  /\ last.kind = "AnswerUpdated" /\ last2.kind = "AnswerUpdated"
  /\ last2.address = "agg3" /\ last.address = "agg2"
  /\ ~Has(store.token, "GHOST")
  /\ last2.saved = <<"B">>
  /\ last.saved = <<"A", "XAU">>
  /\ prev.token["B"].latestFXPrice # Null
  /\ prev.token["A"].latestFXPrice = Null /\ store.token["A"].latestFXPrice # Null

\* a swap-enable signal for a pool the store holds
SwapEnableSignal(l, s) ==
  l.kind = "LogArgument" /\ l.identifier = SET_SWAP_ENABLED /\ KnownPool(s, l.message)

\* C22: after a swap-enable signal for a known pool, value = 0 leaves
\* swapEnabledCurationSignal and swapEnabled false; any other value leaves
\* swapEnabledCurationSignal true and swapEnabled = (not isPaused and
\* swapEnabledInternal); so the signal never enables swaps on a pool that is
\* paused or whose internal swapEnabled is false.
C22_SwapEnableSignalSetsFlags ==
  SwapEnableSignal(last, prev) =>
     LET pool == store.pool[last.message]
     IN  /\ last.value = ZERO =>
               (pool.swapEnabledCurationSignal = FALSE /\ pool.swapEnabled = FALSE)
         /\ last.value # ZERO =>
               /\ pool.swapEnabledCurationSignal = TRUE
               /\ pool.swapEnabled = (~pool.isPaused /\ pool.swapEnabledInternal)
         /\ (pool.isPaused \/ ~pool.swapEnabledInternal) => pool.swapEnabled = FALSE

\* the value of a pool-type signal is a position of poolTypes
PoolTypeInRange(value) == ~BI_lt(value, ZERO) /\ BI_lt(value, BigIntOf(Len(poolTypes)))

\* C23: a signal whose identifier is neither the swap-enable nor the
\* pool-type identifier, a pool-type signal whose value is negative or not
\* below the number of pool types, and any signal whose pool id names no Pool
\* leave every entity as it was; a pool-type signal with a value in range for
\* a known pool changes that pool's poolType, to the type at that position,
\* and nothing else.
C23_UnrecognizedSignalIgnored ==
  last.kind = "LogArgument" =>
     /\ last.identifier \notin {SET_SWAP_ENABLED, SET_POOL_TYPE} => store = prev
     /\ (last.identifier = SET_POOL_TYPE /\ ~PoolTypeInRange(last.value)) => store = prev
     /\ ~KnownPool(prev, last.message) => store = prev
     /\ ( /\ last.identifier = SET_POOL_TYPE
          /\ PoolTypeInRange(last.value)
          /\ KnownPool(prev, last.message) )
        => /\ last.end = "applied"
           /\ store = [prev EXCEPT !.pool[last.message].poolType =
                                      poolTypes[MagToNat(last.value.mag) + 1]]

C23_Witness ==
  /\ last.kind = "LogArgument" /\ last2.kind = "LogArgument"
  /\ last2.identifier = SET_POOL_TYPE /\ last2.message = "P1"
  /\ last2.value = BigIntOf(Len(poolTypes)) /\ last2.end = "skipped" /\ prev = prev2
  /\ last.identifier = SET_POOL_TYPE /\ last.message = "P1" /\ last.value = BigIntOf(1)
  /\ prev.pool["P1"].poolType = "Weighted"
  /\ store.pool["P1"].poolType = "Stable"
  /\ store.pool["P2"] = prev.pool["P2"]

\* |x| of a decimal, and x < y
BD_abs(x) == [x EXCEPT !.neg = FALSE]
BD_lt(x, y) == BD_minus(x, y).neg

\* C24: scaleUp(scaleDown(r, d), d) = r and scaleUp(tokenToDecimal(r, d), d) = r
\* for every raw amount r and decimals d of the inputs; scaleUp(x, d) is x cut
\* towards zero at d fractional digits and not rounded: it is a whole number u
\* of the sign of x with |u| / 10^d <= |x| < (|u| + 1) / 10^d, and 1.9 at d = 0
\* gives 1.
C24_DecimalRoundTrip ==
  /\ last.kind = "ConvertRaw" =>
        (last.scaledUp = last.raw /\ last.scaledUpAgain = last.raw)
  /\ last.kind = "ConvertDecimal" =>
        LET u == last.scaledUp
            back == tokenToDecimal([neg |-> FALSE, mag |-> u.mag], last.decimals)
            next == tokenToDecimal([neg |-> FALSE, mag |-> MagAdd(u.mag, <<1>>)],
                                   last.decimals)
        IN  /\ u # Null
            /\ u.mag # <<>> => u.neg = last.num.neg
            /\ ~BD_lt(BD_abs(last.num), back)
            /\ BD_lt(BD_abs(last.num), next)
            /\ (last.num = [neg |-> FALSE, mag |-> <<9, 1>>, scale |-> 1]
                   /\ last.decimals = 0) => u = BigIntOf(1)

C24_Witness ==
  /\ last.kind = "ConvertDecimal" /\ last2.kind = "ConvertRaw"
  /\ last2.raw = BigIntOf(1999999) /\ last2.decimals = 6
  /\ last2.scaledDown = [neg |-> FALSE, mag |-> <<9, 9, 9, 9, 9, 9, 1>>, scale |-> 6]
  /\ last2.scaledUp = BigIntOf(1999999)
  /\ last.num = [neg |-> TRUE, mag |-> <<9, 1>>, scale |-> 1] /\ last.decimals = 0
  /\ last.scaledUp = BigIntOf(-1)

\* what a metadata read gives when it succeeds, and the documented default
\* when it fails
ReadOr(call, default) == IF call.reverted THEN default ELSE call.value

\* the decimals the internal-balance event converted its delta with
InternalBalanceDelta(e) ==
  BD_minus(store.userInternalBalance[<<e.user, e.token>>].balance,
           IF Has(prev.userInternalBalance, <<e.user, e.token>>)
           THEN prev.userInternalBalance[<<e.user, e.token>>].balance ELSE ZERO_BD)

\* C25: a metadata read that fails does not abort the event and yields the
\* default: symbol and name the empty string, decimals 18, the yield-fee
\* exemption absent; so for the PoolToken created, for the Token created and
\* for the decimals the internal-balance event looks up
C25_FailedReadYieldsDefault ==
  /\ last.kind = "PoolTokenCreated" =>
        LET poolToken == PT(store, last.poolId, last.token)
        IN  /\ last.end = "applied"
            /\ poolToken.symbol = ReadOr(try_symbol(last.token), "")
            /\ poolToken.name = ReadOr(try_name(last.token), "")
            /\ poolToken.decimals = ReadOr(try_decimals(last.token), 18)
            /\ (/\ isComposableStablePool(prev.pool[last.poolId])
                /\ try_isTokenExemptFromYieldProtocolFee(
                      prev.pool[last.poolId].address, last.token).reverted)
                 => poolToken.isExemptFromYieldProtocolFee = Null
  /\ last.kind \in {"PoolTokenCreated", "InternalBalanceChanged"} =>
        /\ last.end = "applied"
        /\ ~Has(prev.token, last.token) =>
              /\ store.token[last.token].symbol = ReadOr(try_symbol(last.token), "")
              /\ store.token[last.token].name = ReadOr(try_name(last.token), "")
              /\ store.token[last.token].decimals = ReadOr(try_decimals(last.token), 18)
  /\ last.kind = "InternalBalanceChanged" =>
        InternalBalanceDelta(last) =
          tokenToDecimal(last.delta, ReadOr(try_decimals(last.token), 18))

\* every event handled so far was fully applied
AllApplied == \A i \in 1..Len(log) : log[i].end = "applied"

\* the balance of the token in the pool, zero where the pool does not hold it
BalanceIn(s, poolId, tokenAddress) ==
  IF Has(s.poolToken, getPoolTokenId(poolId, tokenAddress))
  THEN PT(s, poolId, tokenAddress).balance ELSE ZERO_BD

\* the sum of PoolToken.balance over the pools that hold the token
SumOfPoolBalances(s, tokenAddress) ==
  BD_plus(BalanceIn(s, "P1", tokenAddress), BalanceIn(s, "P2", tokenAddress))

NotionalIsSumOfBalances(s) ==
  \A tokenAddress \in DOMAIN s.token :
     s.token[tokenAddress].totalBalanceNotional = SumOfPoolBalances(s, tokenAddress)

\* C26: after fully applied events (joins, exits, managed balances, swaps, a
\* swap of a token for itself included) the notional balance of every token is
\* the sum of its PoolToken balances over the pools
C26_NotionalIsSumOfBalances ==
  AllApplied => NotionalIsSumOfBalances(store)

\* C27: a Join, an Exit or a BalanceManaged event that names a pool the store
\* does not know leaves the whole store as it was (PoolTokens, Tokens, Pools,
\* JoinExits, PoolSnapshots and every other entity) and does not abort.
C27_UnknownPoolBalanceEventIgnored ==
  ( /\ last.kind \in {"PoolBalanceChanged", "PoolBalanceManaged"}
    /\ ~KnownPool(prev, last.poolId) )
  => /\ store = prev
     /\ last.end # "aborted"
     /\ ~halted

\* the three events of the claim were handled for an unknown pool: a Join or
\* a BalanceManaged event last, an Exit before it
C27_Witness ==
  /\ last2.kind = "PoolBalanceChanged"
  /\ ~KnownPool(prev2, last2.poolId)
  /\ Dispatch(last2.deltas) = "Exit"
  /\ ~KnownPool(prev, last.poolId)
  /\ \/ last.kind = "PoolBalanceChanged" /\ Dispatch(last.deltas) = "Join"
     \/ last.kind = "PoolBalanceManaged" /\ last.cashDelta # ZERO
  /\ last.end = "skipped"

TotalSharesUnchanged ==
  \A poolId \in DOMAIN prev.pool :
     store.pool[poolId].totalShares = prev.pool[poolId].totalShares

\* C28: every Exit, every BalanceManaged event and every Join on a pool that
\* is not of a preminted-share type (StablePhantom, ComposableStable, Managed)
\* leaves Pool.totalShares as it was, and such a Join injects no synthetic
\* share transfer; a BalanceManaged event changes nothing but the PoolToken it
\* names and the Token entity of that token.
C28_TotalSharesFrame ==
  /\ (last.kind = "PoolBalanceChanged" /\ Dispatch(last.deltas) = "Exit")
        => TotalSharesUnchanged
  /\ ( /\ last.kind = "PoolBalanceChanged" /\ Dispatch(last.deltas) = "Join"
       /\ KnownPool(prev, last.poolId)
       /\ ~( \/ prev.pool[last.poolId].poolType = "StablePhantom"
             \/ isComposableStablePool(prev.pool[last.poolId])
             \/ isManagedPool(prev.pool[last.poolId]) ) )
        => TotalSharesUnchanged /\ last.sent = <<>>
  /\ last.kind = "PoolBalanceManaged" =>
        /\ TotalSharesUnchanged
        /\ \A f \in DOMAIN store \ {"poolToken", "token"} : store[f] = prev[f]
        /\ DOMAIN store.poolToken = DOMAIN prev.poolToken
        /\ \A id \in DOMAIN prev.poolToken :
              id # getPoolTokenId(last.poolId, last.token)
              => store.poolToken[id] = prev.poolToken[id]
        /\ DOMAIN store.token \subseteq DOMAIN prev.token \cup {last.token}
        /\ \A tokenAddress \in DOMAIN prev.token :
              tokenAddress # last.token
              => store.token[tokenAddress] = prev.token[tokenAddress]

\* a Join was applied to the weighted pool P1 and sent no transfer, then a
\* BalanceManaged event was applied and moved the balance of its PoolToken
C28_Witness ==
  /\ AppliedJoin(last2)
  /\ prev2.pool[last2.poolId].poolType = "Weighted"
  /\ last2.sent = <<>>
  /\ last.kind = "PoolBalanceManaged" /\ last.end = "applied"
  /\ PT(store, last.poolId, last.token) # PT(prev, last.poolId, last.token)

====
